---- MODULE Spec2Model ----
(***************************************************************************)
(* KYCC: the temporal-safe feature / scoring / versioning core.            *)
(*                                                                         *)
(* Tables are sequences of rows (a row's id is its index).  A nullable     *)
(* column holds None (<<>>) or Some(x) (<<x>>).  AUC values are integers   *)
(* in thousandths (0.55 is 550, 0.005 is 5); dates are integers in days.   *)
(***************************************************************************)
EXTENDS Integers, Sequences, FiniteSets, TLC

VARIABLES
    versions,        \* scorecard_versions as ScorecardVersionService uses it
    features,        \* features (the feature store)
    score_requests,  \* score_requests
    registry,        \* scorecard versions as ModelRegistryService uses them
    transactions,    \* transactions
    relationships,   \* relationships
    now,             \* datetime.utcnow()
    last,            \* the last completed call: its arguments and its result
    sess,            \* the database sessions running a call step by step
    labels,          \* ground_truth_labels
    model_registry,  \* model_registry
    args,            \* the arguments handed to the function under study
    batches,         \* batches (a row per batch id)
    training_jobs,   \* training_jobs
    cache,           \* TTLCache._cache: key -> (value, timestamp)
    cursor,          \* the sensor's cursor: the processed file names
    data_files       \* the files of the data directory

vars == <<versions, features, score_requests, registry, transactions,
          relationships, now, last, sess, labels, model_registry, args,
                   batches, training_jobs, cache, cursor, data_files>>

----------------------------------------------------------------------------
(* Bounds of the model *)

MaxVersions == 4
MaxClock == 1

(* Program constants, in thousandths *)
MIN_AUC_THRESHOLD == 550
IMPROVEMENT_THRESHOLD == 5

None == <<>>
Some(x) == <<x>>

AucValues == {549, 550, 554, 555, 560}
WeightChoices == {"w_a", "w_b"}

NoCall == [op |-> "none"]
NoSessions == [s \in {1, 2} |-> [pc |-> "idle"]]

----------------------------------------------------------------------------
(* Scorecard Version Registry: ScorecardVersionService *)

INITIAL_SCORECARD_V1 ==
    [version |-> <<1, 0>>, base_score |-> 300, max_score |-> 900,
     weights |-> "w_expert", feature_scaling |-> Some("expert_scaling")]

\* ScorecardVersion.to_config_dict: scaling_config or {}
to_config_dict(row) ==
    [id |-> Some(row.id), version |-> row.version, base_score |-> row.base_score,
     max_score |-> row.max_score, weights |-> row.weights,
     feature_scaling |-> row.scaling_config]

ActiveIds_any_status(vs) == DOMAIN vs

ActiveIds(vs) == {i \in DOMAIN vs : vs[i].status = "active"}

\* query(...).first() with no ORDER BY: one of the matching rows, or None
QueryFirst(ids) == IF ids = {} THEN {None} ELSE {Some(i) : i \in ids}

\* get_active_scorecard, given the row its query returned
get_active_scorecard(vs, first) ==
    IF first # None
    THEN to_config_dict(vs[first[1]])
    ELSE [id |-> None] @@ INITIAL_SCORECARD_V1

\* A version string "a.b" is the sequence of its dot-separated parts; a part
\* that int() rejects is written -1.
IsIntPart(p) == p \in Nat

_get_next_version_number_major_bump(vs) ==
    IF Len(vs) = 0 THEN <<1, 0>> ELSE <<2, 0>>

_get_next_version_number(vs) ==
    IF Len(vs) = 0
    THEN <<1, 0>>
    ELSE LET parts == vs[Len(vs)].version
         IN IF Len(parts) = 0 \/ ~IsIntPart(parts[1])
            THEN <<2, 0>>
            ELSE IF Len(parts) > 1
                 THEN IF IsIntPart(parts[2])
                      THEN <<parts[1], parts[2] + 1>>
                      ELSE <<2, 0>>
                 ELSE <<parts[1], 1>>

\* Python truthiness of a nullable float column
Truthy(m) == m # None /\ m[1] # 0

GateOneFails_wrong_constant(ml_auc) == ml_auc < IMPROVEMENT_THRESHOLD

\* Gate 1: ml_auc < MIN_AUC_THRESHOLD
GateOneFails(ml_auc) == ml_auc < MIN_AUC_THRESHOLD

GateTwoFails_reversed(vs, cv, ml_auc) ==
    /\ cv # None
    /\ Truthy(vs[cv[1]].ml_auc)
    /\ vs[cv[1]].ml_auc[1] - ml_auc < IMPROVEMENT_THRESHOLD

\* Gate 2: current_version and current_version.ml_auc and improvement < threshold
GateTwoFails(vs, cv, ml_auc) ==
    /\ cv # None
    /\ Truthy(vs[cv[1]].ml_auc)
    /\ ml_auc - vs[cv[1]].ml_auc[1] < IMPROVEMENT_THRESHOLD

_save_failed_version(vs, weights, ml_auc, reason) ==
    Append(vs, [id |-> Len(vs) + 1,
                version |-> _get_next_version_number(vs),
                status |-> "failed",
                weights |-> weights,
                base_score |-> 300,
                max_score |-> 900,
                scaling_config |-> None,
                source |-> "ml_refined",
                ml_auc |-> Some(ml_auc),
                activated_at |-> None,
                retired_at |-> None,
                notes |-> <<"FAILED", reason>>])

RetireCurrent_skipped(vs, cv, t) == vs

\* current_version.status = 'retired'; current_version.retired_at = utcnow()
RetireCurrent(vs, cv, t) ==
    IF cv = None
    THEN vs
    ELSE [vs EXCEPT ![cv[1]].status = "retired", ![cv[1]].retired_at = Some(t)]

NewActiveVersion_as_draft(vs, current, weights, ml_auc, t) ==
    [id |-> Len(vs) + 1,
     version |-> _get_next_version_number(vs),
     status |-> "draft",
     weights |-> weights,
     base_score |-> current.base_score,
     max_score |-> current.max_score,
     scaling_config |-> current.feature_scaling,
     source |-> "ml_refined",
     ml_auc |-> Some(ml_auc),
     activated_at |-> None,
     retired_at |-> None,
     notes |-> <<"ML-refined from", current.version>>]

\* The row create_version_from_ml builds once both gates are passed
NewActiveVersion(vs, current, weights, ml_auc, t) ==
    [id |-> Len(vs) + 1,
     version |-> _get_next_version_number(vs),
     status |-> "active",
     weights |-> weights,
     base_score |-> current.base_score,
     max_score |-> current.max_score,
     scaling_config |-> current.feature_scaling,
     source |-> "ml_refined",
     ml_auc |-> Some(ml_auc),
     activated_at |-> Some(t),
     retired_at |-> None,
     notes |-> <<"ML-refined from", current.version>>]

\* create_version_from_ml on a registry vs: the registry it commits.
\* current is get_active_scorecard()'s config, cv the row of the second query.
CreateVersion(vs, current, cv, weights, ml_auc, t) ==
    IF GateOneFails(ml_auc)
    THEN _save_failed_version(vs, weights, ml_auc, "AUC below minimum")
    ELSE IF GateTwoFails(vs, cv, ml_auc)
         THEN _save_failed_version(vs, weights, ml_auc, "Improvement below threshold")
         ELSE Append(RetireCurrent(vs, cv, t),
                     NewActiveVersion(vs, current, weights, ml_auc, t))

create_version_from_ml(weights, ml_auc) ==
    /\ Len(versions) < MaxVersions
    /\ \E first \in QueryFirst(ActiveIds(versions)),
          cv \in QueryFirst(ActiveIds(versions)) :
          /\ versions' = CreateVersion(versions,
                                       get_active_scorecard(versions, first),
                                       cv, weights, ml_auc, now)
          /\ last' = [op |-> "create_version_from_ml",
                      weights |-> weights,
                      ml_auc |-> ml_auc,
                      raised |-> FALSE,
                      ret |-> Len(versions) + 1,
                      pre_active |-> cv,
                      pre_auc |-> IF cv = None THEN None ELSE versions[cv[1]].ml_auc,
                      pre_ml_promoted |->
                          \E i \in DOMAIN versions :
                              /\ versions[i].source = "ml_refined"
                              /\ versions[i].status \in {"active", "retired"}]
    /\ UNCHANGED <<features, score_requests, registry, transactions,
                   relationships, now, sess,
                   labels, model_registry, args,
                   batches, training_jobs, cache, cursor, data_files>>

InitialVersion(t) ==
    [id |-> 1,
     version |-> <<1, 0>>,
     status |-> "active",
     weights |-> INITIAL_SCORECARD_V1.weights,
     base_score |-> INITIAL_SCORECARD_V1.base_score,
     max_score |-> INITIAL_SCORECARD_V1.max_score,
     scaling_config |-> INITIAL_SCORECARD_V1.feature_scaling,
     source |-> "expert",
     ml_auc |-> None,
     activated_at |-> Some(t),
     retired_at |-> None,
     notes |-> <<"Initial expert-defined scorecard">>]

VersionExists(vs, v) == \E i \in DOMAIN vs : vs[i].version = v

ensure_initial_version ==
    /\ Len(versions) < MaxVersions
    /\ versions' = IF VersionExists(versions, <<1, 0>>)
                   THEN versions
                   ELSE Append(versions, [InitialVersion(now) EXCEPT !.id = Len(versions) + 1])
    /\ last' = [op |-> "ensure_initial_version",
                inserted |-> ~VersionExists(versions, <<1, 0>>)]
    /\ UNCHANGED <<features, score_requests, registry, transactions,
                   relationships, now, sess,
                   labels, model_registry, args,
                   batches, training_jobs, cache, cursor, data_files>>

Tick ==
    /\ now < MaxClock
    /\ now' = now + 1
    /\ UNCHANGED <<versions, features, score_requests, registry, transactions,
                   relationships, last, sess,
                   labels, model_registry, args,
                   batches, training_jobs, cache, cursor, data_files>>

----------------------------------------------------------------------------
(* The registry, one call at a time *)

Init ==
    /\ versions = <<>>
    /\ features = <<>>
    /\ score_requests = <<>>
    /\ registry = <<>>
    /\ transactions = <<>>
    /\ relationships = <<>>
    /\ now = 0
    /\ last = NoCall
    /\ sess = NoSessions
    /\ labels = <<>>
    /\ model_registry = <<>>
    /\ batches = <<>>
    /\ training_jobs = <<>>
    /\ cache = <<>>
    /\ cursor = <<>>
    /\ data_files = {}
    /\ args = NoCall

CreateVersionCall == \E w \in WeightChoices, a \in AucValues : create_version_from_ml(w, a)

Next ==
    \/ CreateVersionCall
    \/ ensure_initial_version
    \/ Tick

Spec == Init /\ [][Next]_vars

\* A scoring caller: config = get_active_scorecard()
GetActiveScorecardCall ==
    /\ \E first \in QueryFirst(ActiveIds(versions)) :
           last' = [op |-> "get_active_scorecard",
                    ret |-> get_active_scorecard(versions, first)]
    /\ UNCHANGED <<versions, features, score_requests, registry, transactions,
                   relationships, now, sess,
                   labels, model_registry, args,
                   batches, training_jobs, cache, cursor, data_files>>

NextReader ==
    \/ CreateVersionCall
    \/ ensure_initial_version
    \/ GetActiveScorecardCall
    \/ Tick

SpecReader == Init /\ [][NextReader]_vars

----------------------------------------------------------------------------
(* Source data *)

\* parties: the rows the calls below refer to (contact_fields counts the
\* non-empty ones among contact_person, email, phone, address)
PartyTable ==
    (1 :> [batch_id |-> "BATCH_A", kyc_verified |-> 1, created_at |-> Some(0),
           party_type |-> "SUPPLIER", contact_fields |-> 4, tax_id |-> TRUE])
    @@
    (2 :> [batch_id |-> "BATCH_A", kyc_verified |-> 0, created_at |-> None,
           party_type |-> "individual", contact_fields |-> 1, tax_id |-> FALSE])
    @@
    (3 :> [batch_id |-> "BATCH_B", kyc_verified |-> 1, created_at |-> Some(0),
           party_type |-> "retailer", contact_fields |-> 2, tax_id |-> TRUE])

PartyIds == DOMAIN PartyTable
BatchIds == {"BATCH_A", "BATCH_B"}

----------------------------------------------------------------------------
(* Feature extractors.  A feature value is [kind, args]: a number, a ratio    *)
(* a/b, or the coefficient-of-variation score of a list of monthly volumes.  *)
(* Confidences are in tenths.                                                *)

Num(n) == [kind |-> "num", args |-> <<n>>]
Ratio(a, b) == [kind |-> "ratio", args |-> <<a, b>>]

FeatureExtractorResult(name, value, confidence) ==
    [feature_name |-> name, feature_value |-> value, confidence |-> confidence]

Max(a, b) == IF a >= b THEN a ELSE b

RECURSIVE SumOver(_, _)
SumOver(f, S) ==
    IF S = {}
    THEN 0
    ELSE LET x == CHOOSE y \in S : TRUE
         IN f[x] + SumOver(f, S \ {x})

\* as_of_date or datetime.utcnow()
RefDate(as_of, t) == IF as_of # None THEN as_of[1] ELSE t

Lower(str) ==
    CASE str = "SUPPLIER" -> "supplier"
      [] str = "MANUFACTURER" -> "manufacturer"
      [] OTHER -> str

party_type_scores(key) ==
    CASE key = "manufacturer" -> 10
      [] key = "distributor" -> 8
      [] key = "supplier" -> 7
      [] key = "retailer" -> 6
      [] key = "customer" -> 5
      [] OTHER -> 5

\* KYCFeatureExtractor.extract; years = days / 365.25 = 4 * days / 1461
KYCFeatures(p, as_of, t) ==
    IF p \notin PartyIds
    THEN <<>>
    ELSE LET party == PartyTable[p]
             ref == RefDate(as_of, t)
         IN <<FeatureExtractorResult("kyc_verified", Num(party.kyc_verified), 10)>>
            \o (IF party.created_at # None
                THEN <<FeatureExtractorResult("company_age_years",
                           Ratio(4 * Max(0, ref - party.created_at[1]), 1461), 9)>>
                ELSE <<>>)
            \o <<FeatureExtractorResult("party_type_score",
                     Num(party_type_scores(Lower(party.party_type))), 10),
                 FeatureExtractorResult("contact_completeness",
                     Num(25 * party.contact_fields), 10),
                 FeatureExtractorResult("has_tax_id",
                     Num(IF party.tax_id THEN 1 ELSE 0), 10)>>

TransactionsInWindow_unbounded(tx, p, ref) ==
    {i \in DOMAIN tx :
        /\ tx[i].party_id = p
        /\ tx[i].transaction_date >= ref - 180}

\* The transactions the extractor queries: the party's, from ref - 180 days to ref
TransactionsInWindow(tx, p, ref) ==
    {i \in DOMAIN tx :
        /\ tx[i].party_id = p
        /\ tx[i].transaction_date >= ref - 180
        /\ tx[i].transaction_date <= ref}

\* strftime("%Y-%m"): months are taken as 30 days long
MonthKey(d) == d \div 30

MonthlyVolumes(tx, ids) ==
    [m \in {MonthKey(tx[i].transaction_date) : i \in ids} |->
        SumOver([i \in ids |-> tx[i].amount],
                {i \in ids : MonthKey(tx[i].transaction_date) = m})]

RECURSIVE VolumesByMonth(_, _)
VolumesByMonth(mv, months) ==
    IF months = {}
    THEN <<>>
    ELSE LET m == CHOOSE x \in months : \A y \in months : x <= y
         IN <<mv[m]>> \o VolumesByMonth(mv, months \ {m})

\* 100 * (1 - min(std / mean, 1)) of the monthly volumes
RegularityScore(mv) ==
    IF DOMAIN mv = {}
    THEN Num(0)
    ELSE IF Cardinality(DOMAIN mv) < 2
         THEN Num(50)
         ELSE [kind |-> "cv", args |-> VolumesByMonth(mv, DOMAIN mv)]

_get_default_features ==
    <<FeatureExtractorResult("transaction_count_6m", Num(0), 3),
      FeatureExtractorResult("avg_transaction_amount", Num(0), 3),
      FeatureExtractorResult("total_transaction_volume_6m", Num(0), 3),
      FeatureExtractorResult("transaction_regularity_score", Num(0), 3),
      FeatureExtractorResult("payment_type_diversity", Num(0), 3),
      FeatureExtractorResult("recent_activity_flag", Num(0), 10)>>

\* TransactionFeatureExtractor.extract
TransactionFeatures(tx, p, as_of, t) ==
    LET ref == RefDate(as_of, t)
        ids == TransactionsInWindow(tx, p, ref)
        amount == [i \in ids |-> tx[i].amount]
        mv == MonthlyVolumes(tx, ids)
        recent == {i \in ids : tx[i].transaction_date >= ref - 30}
    IN IF ids = {}
       THEN _get_default_features
       ELSE <<FeatureExtractorResult("transaction_count_6m", Num(Cardinality(ids)), 10),
              FeatureExtractorResult("avg_transaction_amount",
                  Ratio(SumOver(amount, ids), Cardinality(ids)), 10),
              FeatureExtractorResult("total_transaction_volume_6m",
                  Num(SumOver(amount, ids)), 10),
              FeatureExtractorResult("transaction_regularity_score",
                  RegularityScore(mv),
                  IF Cardinality(DOMAIN mv) >= 3 THEN 8 ELSE 5),
              FeatureExtractorResult("payment_type_diversity",
                  Num(Cardinality({tx[i].transaction_type : i \in ids})), 10),
              FeatureExtractorResult("recent_activity_flag",
                  Num(IF recent # {} THEN 1 ELSE 0), 10)>>

filter_rel_unfiltered(rel, ids, as_of) == ids

\* filter_rel: with an as_of_date, only relationships established by then
filter_rel(rel, ids, as_of) ==
    IF as_of # None
    THEN {i \in ids : rel[i].established_date <= as_of[1]}
    ELSE ids

\* get_downstream_network takes no as_of_date: the call raises TypeError and
\* the extractor's except branch sets depth and size to 0
DownstreamNetwork == [max_downstream_depth |-> 0, network_size |-> 0]

\* NetworkFeatureExtractor.extract
NetworkFeatures(rel, p, as_of) ==
    LET downstream ==
            Cardinality(filter_rel(rel, {i \in DOMAIN rel : rel[i].from_party_id = p}, as_of))
        upstream ==
            Cardinality(filter_rel(rel, {i \in DOMAIN rel : rel[i].to_party_id = p}, as_of))
    IN <<FeatureExtractorResult("direct_counterparty_count", Num(downstream + upstream), 10),
         FeatureExtractorResult("network_depth_downstream",
             Num(DownstreamNetwork.max_downstream_depth), 9),
         FeatureExtractorResult("network_size", Num(DownstreamNetwork.network_size), 9),
         FeatureExtractorResult("supplier_count", Num(upstream), 10),
         FeatureExtractorResult("customer_count", Num(downstream), 10),
         FeatureExtractorResult("network_balance_ratio", Ratio(downstream, upstream + 1), 8)>>

\* self.extractors, in order, by get_source_type()
SourceTypes == <<"KYC", "TRANSACTIONS", "RELATIONSHIPS">>

Extract(src, tx, rel, p, as_of, t) ==
    CASE src = "KYC" -> KYCFeatures(p, as_of, t)
      [] src = "TRANSACTIONS" -> TransactionFeatures(tx, p, as_of, t)
      [] src = "RELATIONSHIPS" -> NetworkFeatures(rel, p, as_of)

\* feat.metadata["source_type"] = extractor.get_source_type()
Tagged(feats, src) ==
    [k \in 1..Len(feats) |->
        [feature_name |-> feats[k].feature_name,
         feature_value |-> feats[k].feature_value,
         confidence |-> feats[k].confidence,
         source_type |-> src]]

\* if source_types: a None or an empty list selects every extractor
TargetExtractor(source_types, src) ==
    (source_types # None /\ source_types[1] # {}) => src \in source_types[1]

RECURSIVE RunExtractors(_, _, _, _, _, _, _, _)
RunExtractors(k, source_types, failed, tx, rel, p, as_of, t) ==
    IF k > Len(SourceTypes)
    THEN <<>>
    ELSE (IF TargetExtractor(source_types, SourceTypes[k]) /\ SourceTypes[k] \notin failed
          THEN Tagged(Extract(SourceTypes[k], tx, rel, p, as_of, t), SourceTypes[k])
          ELSE <<>>)
         \o RunExtractors(k + 1, source_types, failed, tx, rel, p, as_of, t)

\* The all_features list of extract_features; failed: the extractors that raise
AllFeatures(source_types, failed, tx, rel, p, as_of, t) ==
    RunExtractors(1, source_types, failed, tx, rel, p, as_of, t)

----------------------------------------------------------------------------
(* Feature store: FeaturePipelineService and the score-persistence path *)

MaxFeatureRows == 18

CurrentRows(fs, p, name) ==
    {i \in DOMAIN fs :
        /\ fs[i].party_id = p
        /\ fs[i].feature_name = name
        /\ fs[i].valid_to = None}

\* The rows the expiring UPDATE of _store_features matches: the party's
\* current rows (only those of affected_sources when it is a non-empty list)
ExpiryTargets(fs, p, affected_sources) ==
    {i \in DOMAIN fs :
        /\ fs[i].party_id = p
        /\ fs[i].valid_to = None
        /\ (affected_sources # None /\ affected_sources[1] # {})
               => fs[i].source_type \in affected_sources[1]}

\* SET valid_to = utcnow() on those rows
ExpireRows(fs, ids, t) ==
    [i \in DOMAIN fs |-> IF i \in ids THEN [fs[i] EXCEPT !.valid_to = Some(t)] ELSE fs[i]]

\* _store_features: query.update({Feature.valid_to: datetime.utcnow()})
ExpireCurrent(fs, p, affected_sources, t) ==
    ExpireRows(fs, ExpiryTargets(fs, p, affected_sources), t)

\* _store_features: one Feature row per extracted feature
NewFeatureRows(p, feats, t) ==
    [k \in 1..Len(feats) |->
        [party_id |-> p,
         feature_name |-> feats[k].feature_name,
         feature_value |-> feats[k].feature_value,
         confidence_score |-> Some(feats[k].confidence),
         source_type |-> feats[k].source_type,
         valid_from |-> t,
         valid_to |-> None]]

_store_features(fs, p, feats, affected_sources, t) ==
    ExpireCurrent(fs, p, affected_sources, t) \o NewFeatureRows(p, feats, t)

\* affected_sources = source_types if source_types else None
AffectedSources(source_types) ==
    IF source_types # None /\ source_types[1] # {} THEN source_types ELSE None

StoresFeatures_any_date(as_of_date) == TRUE

\* if as_of_date is None: self._store_features(...)
StoresFeatures(as_of_date) == as_of_date = None

extract_features(p, source_types, as_of, failed) ==
    LET feats == AllFeatures(source_types, failed, transactions, relationships, p, as_of, now)
    IN /\ Len(features) + Len(feats) <= MaxFeatureRows
       /\ features' = IF StoresFeatures(as_of)
                      THEN _store_features(features, p, feats,
                                           AffectedSources(source_types), now)
                      ELSE features
       /\ last' = [op |-> "extract_features",
                   party_id |-> p,
                   source_types |-> source_types,
                   as_of_date |-> as_of,
                   failed |-> failed,
                   features_list |-> feats]
       /\ UNCHANGED <<versions, score_requests, registry, transactions,
                      relationships, now, sess,
                   labels, model_registry, args,
                   batches, training_jobs, cache, cursor, data_files>>

\* A party id string is the sequence of its '-'-separated parts
\* int(party_id.split("-")[1]) if party_id.startswith("P-") else 0
PersistedPartyId(party_id) ==
    IF Len(party_id) >= 2 /\ party_id[1] = "P" THEN party_id[2] ELSE 0

Upper(str) == CASE str = "synthetic" -> "SYNTHETIC" [] OTHER -> str

\* result["features"] as compute_features returns it, party_id left out
ScoredFeatureNames ==
    <<"txn_count", "avg_deposit", "avg_payment", "net_flow_30d", "balance_total">>

ScoredFeatureRows(p, values, source_type, t) ==
    [k \in 1..Len(ScoredFeatureNames) |->
        [party_id |-> p,
         feature_name |-> ScoredFeatureNames[k],
         feature_value |-> Num(values[k]),
         confidence_score |-> None,
         source_type |-> Upper(source_type),
         valid_from |-> t,
         valid_to |-> None]]

\* _persist_score_result: the ScoreRequest, one Feature row per feature, one
\* commit.  parties.id is a foreign key: where the database enforces it a row
\* of party 0 fails the commit, where it does not (SQLite) the rows are stored.
_persist_score_result(party_id, values, source_type, fk_enforced) ==
    LET p == PersistedPartyId(party_id)
        rejected == p \notin PartyIds /\ fk_enforced
    IN /\ Len(features) + Len(ScoredFeatureNames) <= MaxFeatureRows
       /\ score_requests' =
              IF rejected
              THEN score_requests
              ELSE Append(score_requests,
                          [party_id |-> p, model_version |-> "scorecard_v2",
                           model_type |-> "scorecard"])
       /\ features' =
              IF rejected
              THEN features
              ELSE features \o ScoredFeatureRows(p, values, source_type, now)
       /\ last' = [op |-> "_persist_score_result",
                   party_id |-> p,
                   raised |-> rejected]
       /\ UNCHANGED <<versions, registry, transactions, relationships, now, sess,
                   labels, model_registry, args,
                   batches, training_jobs, cache, cursor, data_files>>

FeatureParties == {1, 2}
SourceTypeLists == {None} \cup {Some({src}) : src \in {"KYC", "TRANSACTIONS", "RELATIONSHIPS"}}

ExtractLive ==
    \E p \in FeatureParties, st \in SourceTypeLists,
       failed \in SUBSET {"KYC", "TRANSACTIONS", "RELATIONSHIPS"} :
        /\ \A src \in failed : TargetExtractor(st, src)
        /\ extract_features(p, st, None, failed)

PersistScore ==
    \E party_id \in {<<"P", 1>>, <<"P", 2>>, <<"P", 3>>, <<"X9">>}, fk \in BOOLEAN :
        _persist_score_result(party_id, <<2, 50, -20, 30, 500>>, "synthetic", fk)

NextFeatures ==
    \/ ExtractLive
    \/ PersistScore

SpecFeatures == Init /\ [][NextFeatures]_vars

----------------------------------------------------------------------------
(* scorecard_service.compute_score: score, then persist when asked to *)

\* compute_score(source_type, params, db=db, persist): the result is built,
\* _persist_score_result runs inside try/except Exception, whose handler
\* prints a warning, and the result is returned.
compute_score(party_id, values, source_type, persist, fk_enforced) ==
    LET p == PersistedPartyId(party_id)
        rejected == p \notin PartyIds /\ fk_enforced
        stored == persist /\ ~rejected
    IN /\ Len(features) + Len(ScoredFeatureNames) <= MaxFeatureRows
       /\ score_requests' =
              IF stored
              THEN Append(score_requests,
                          [party_id |-> p, model_version |-> "scorecard_v2",
                           model_type |-> "scorecard"])
              ELSE score_requests
       /\ features' =
              IF stored
              THEN features \o ScoredFeatureRows(p, values, source_type, now)
              ELSE features
       /\ last' = [op |-> "compute_score",
                   party_id |-> party_id,
                   persist |-> persist,
                   persist_raised |-> persist /\ rejected,
                   raised |-> FALSE,
                   score_requests_before |-> Len(score_requests)]
       /\ UNCHANGED <<versions, registry, transactions, relationships, now, sess,
                      labels, model_registry, args,
                   batches, training_jobs, cache, cursor, data_files>>

ComputeScoreCall ==
    \E party_id \in {<<"P", 1>>, <<"P", 2>>, <<"P", 3>>, <<"X9">>},
       persist \in BOOLEAN, fk \in BOOLEAN :
        compute_score(party_id, <<2, 50, -20, 30, 500>>, "synthetic", persist, fk)

NextScoring ==
    \/ ComputeScoreCall
    \/ Tick

SpecScoring == Init /\ [][NextScoring]_vars

----------------------------------------------------------------------------
(* Temporal Leakage Guard: TemporalValidationService over ModelRegistryService *)

MaxRegistry == 2

\* A version id "v007" is <<"v", 7>>.
RegistryActiveIds(reg) == {i \in DOMAIN reg : reg[i].is_active}

\* order_by(created_at.desc()).first(): a row with the latest created_at
LatestCreated(reg) ==
    {i \in DOMAIN reg : \A j \in DOMAIN reg : reg[j].created_at <= reg[i].created_at}

\* activate_version: deactivate all, then activate the first row with the id
activate_version(reg, target) ==
    [i \in DOMAIN reg |-> [reg[i] EXCEPT !.is_active = (i = target)]]

register_new_version(trained_on_batch_id, auto_activate) ==
    /\ Len(registry) < MaxRegistry
    /\ \E lv \in QueryFirst(LatestCreated(registry)) :
          LET new_id == IF lv = None
                        THEN <<"v", 1>>
                        ELSE <<"v", registry[lv[1]].version_id[2] + 1>>
              parent_id == IF lv = None THEN None ELSE Some(registry[lv[1]].version_id)
              added == Append(registry,
                              [version_id |-> new_id,
                               trained_on_batch_id |-> trained_on_batch_id,
                               is_active |-> FALSE,
                               parent_version_id |-> parent_id,
                               created_at |-> now])
          IN \E target \in {i \in DOMAIN added : added[i].version_id = new_id} :
                /\ registry' = IF auto_activate
                               THEN activate_version(added, target)
                               ELSE added
                /\ last' = [op |-> "register_new_version", ret |-> new_id]
    /\ UNCHANGED <<versions, features, score_requests, transactions,
                   relationships, now, sess,
                   labels, model_registry, args,
                   batches, training_jobs, cache, cursor, data_files>>

\* get_active_version: the active row's dict, or ValueError when there is none
get_active_version(reg, first) ==
    IF first = None
    THEN [raised |-> "ValueError"]
    ELSE [raised |-> "none",
          version_id |-> reg[first[1]].version_id,
          trained_on_batch_id |-> reg[first[1]].trained_on_batch_id]

\* query(ScoreRequest).join(Party).filter(Party.batch_id == batch_id).count()
CountScores(sr, batch_id) ==
    Cardinality({i \in DOMAIN sr :
                    /\ sr[i].party_id \in PartyIds
                    /\ PartyTable[sr[i].party_id].batch_id = batch_id})

AlreadyScored_off_by_one(count) == count > 1

\* if count > 0: raise ValueError
AlreadyScored(count) == count > 0

\* The try block of check 2: what it raises
LeakageCheck(reg, first, batch_id) ==
    LET active == get_active_version(reg, first)
    IN IF active.raised # "none"
       THEN active.raised
       ELSE IF active.trained_on_batch_id = batch_id
            THEN "ValueError"
            ELSE "none"

\* except ValueError: pass
ExceptValueErrorPass(raised) == IF raised = "ValueError" THEN "none" ELSE raised

\* validate_scoring_request: what the call raises ("none": it returns)
ValidateScoringRequest(sr, reg, first, batch_id) ==
    IF AlreadyScored(CountScores(sr, batch_id))
    THEN "ValueError"
    ELSE ExceptValueErrorPass(LeakageCheck(reg, first, batch_id))

Tables ==
    <<versions, features, score_requests, registry, transactions, relationships,
      labels, model_registry>>

validate_scoring_request(batch_id) ==
    /\ \E first \in QueryFirst(RegistryActiveIds(registry)) :
          last' = [op |-> "validate_scoring_request",
                   batch_id |-> batch_id,
                   raised |-> ValidateScoringRequest(score_requests, registry, first, batch_id),
                   pre |-> Tables]
    /\ UNCHANGED <<versions, features, score_requests, registry, transactions,
                   relationships, now, sess,
                   labels, model_registry, args,
                   batches, training_jobs, cache, cursor, data_files>>

RegisterVersionCall ==
    \E b \in BatchIds \cup {"BOOTSTRAP"}, auto \in BOOLEAN : register_new_version(b, auto)

ValidateScoringCall == \E b \in BatchIds : validate_scoring_request(b)

\* a party of each batch is scored and the score persisted
ScorePartyCall ==
    \E party_id \in {<<"P", 1>>, <<"P", 3>>} :
        _persist_score_result(party_id, <<2, 50, -20, 30, 500>>, "synthetic", TRUE)

NextGuard ==
    \/ RegisterVersionCall
    \/ ScorePartyCall
    \/ ValidateScoringCall
    \/ Tick

SpecGuard == Init /\ [][NextGuard]_vars

----------------------------------------------------------------------------
(* Point-in-time extraction over ingested source data *)

MaxTransactions == 2
MaxRelationships == 1

TransactionUniverse ==
    [party_id : {1, 2},
     transaction_date : {10, 170, 200, 260},
     amount : {100},
     transaction_type : {"invoice"}]
    \cup
    [party_id : {1, 2},
     transaction_date : {10, 170, 200, 260},
     amount : {40},
     transaction_type : {"payment"}]

RelationshipUniverse ==
    {r \in [from_party_id : {1, 2}, to_party_id : {1, 2}, established_date : {170, 260}] :
        r.from_party_id # r.to_party_id}

RECURSIVE RowsOf(_)
RowsOf(S) ==
    IF S = {}
    THEN <<>>
    ELSE LET x == CHOOSE y \in S : TRUE
         IN <<x>> \o RowsOf(S \ {x})

AsOfDates == {200, 260}
AsOfFailures == {{}, {"TRANSACTIONS"}}

\* The tables after ingestion of a seed file, at some later day
InitAsOf ==
    /\ versions = <<>>
    /\ features = <<>>
    /\ score_requests = <<>>
    /\ registry = <<>>
    /\ \E T \in SUBSET TransactionUniverse :
          /\ Cardinality(T) <= MaxTransactions
          /\ transactions = RowsOf(T)
    /\ \E R \in SUBSET RelationshipUniverse :
          /\ Cardinality(R) <= MaxRelationships
          /\ relationships = RowsOf(R)
    /\ now = 300
    /\ last = NoCall
    /\ sess = NoSessions
    /\ labels = <<>>
    /\ model_registry = <<>>
    /\ batches = <<>>
    /\ training_jobs = <<>>
    /\ cache = <<>>
    /\ cursor = <<>>
    /\ data_files = {}
    /\ args = NoCall

\* build_matrix: extract_features(party.id, as_of_date=label.created_at)
ExtractAsOf ==
    \E p \in FeatureParties, T \in AsOfDates, failed \in AsOfFailures :
        extract_features(p, None, Some(T), failed)

NextAsOf == ExtractAsOf

SpecAsOf == InitAsOf /\ [][NextAsOf]_vars

\* Live extraction and training-matrix extraction over the same feature store
NextMatrix ==
    \/ ExtractLive
    \/ ExtractAsOf

SpecMatrix == Init /\ [][NextMatrix]_vars

----------------------------------------------------------------------------
(* The registry under two database sessions.  A session's queries read the   *)
(* committed table (READ COMMITTED); its writes are flushed and committed by  *)
(* its db.commit() (autoflush is off).                                        *)

Sessions == DOMAIN NoSessions
InFlight == {s \in Sessions : sess[s].pc # "idle"}
SessionWeights(s) == IF s = 1 THEN "w_a" ELSE "w_b"

\* create_version_from_ml is entered; gate 1 reads nothing
BeginCreateVersion(s, ml_auc) ==
    /\ sess[s].pc = "idle"
    /\ Len(versions) + Cardinality(InFlight) < MaxVersions
    /\ sess' = [sess EXCEPT ![s] =
                   [pc |-> IF GateOneFails(ml_auc)
                           THEN "failed_version_number"
                           ELSE "get_active_scorecard",
                    weights |-> SessionWeights(s),
                    ml_auc |-> ml_auc,
                    reason |-> "AUC below minimum",
                    current |-> None,
                    current_version |-> None,
                    version_num |-> None]]
    /\ UNCHANGED <<versions, features, score_requests, registry, transactions,
                   relationships, now, last,
                   labels, model_registry, args,
                   batches, training_jobs, cache, cursor, data_files>>

\* current = self.get_active_scorecard()
QueryActiveScorecard(s) ==
    /\ sess[s].pc = "get_active_scorecard"
    /\ \E first \in QueryFirst(ActiveIds(versions)) :
          sess' = [sess EXCEPT ![s].pc = "current_version",
                               ![s].current = Some(get_active_scorecard(versions, first))]
    /\ UNCHANGED <<versions, features, score_requests, registry, transactions,
                   relationships, now, last,
                   labels, model_registry, args,
                   batches, training_jobs, cache, cursor, data_files>>

\* current_version = query(status == 'active').first(), then gate 2 on the
\* loaded row
QueryCurrentVersion(s) ==
    /\ sess[s].pc = "current_version"
    /\ \E cv \in QueryFirst(ActiveIds(versions)) :
          sess' = [sess EXCEPT ![s].pc = IF GateTwoFails(versions, cv, sess[s].ml_auc)
                                         THEN "failed_version_number"
                                         ELSE "next_version_number",
                               ![s].reason = "Improvement below threshold",
                               ![s].current_version = cv]
    /\ UNCHANGED <<versions, features, score_requests, registry, transactions,
                   relationships, now, last,
                   labels, model_registry, args,
                   batches, training_jobs, cache, cursor, data_files>>

\* self._get_next_version_number(), on either path
QueryNextVersionNumber(s) ==
    /\ sess[s].pc \in {"next_version_number", "failed_version_number"}
    /\ sess' = [sess EXCEPT ![s].pc = IF sess[s].pc = "next_version_number"
                                      THEN "commit_version"
                                      ELSE "commit_failed",
                            ![s].version_num = Some(_get_next_version_number(versions))]
    /\ UNCHANGED <<versions, features, score_requests, registry, transactions,
                   relationships, now, last,
                   labels, model_registry, args,
                   batches, training_jobs, cache, cursor, data_files>>

\* db.add(new_version); db.commit(): the UPDATE of the retired row and the
\* INSERT in one transaction; version is a unique column
CommitVersion(s) ==
    /\ sess[s].pc = "commit_version"
    /\ LET num == sess[s].version_num[1]
           raised == VersionExists(versions, num)
           row == [NewActiveVersion(versions, sess[s].current[1], sess[s].weights,
                                    sess[s].ml_auc, now)
                       EXCEPT !.version = num]
       IN /\ versions' = IF raised
                         THEN versions
                         ELSE Append(RetireCurrent(versions, sess[s].current_version, now), row)
          /\ last' = [op |-> "create_version_from_ml", session |-> s,
                      raised |-> raised, status |-> "active"]
    /\ sess' = [sess EXCEPT ![s] = [pc |-> "idle"]]
    /\ UNCHANGED <<features, score_requests, registry, transactions,
                   relationships, now,
                   labels, model_registry, args,
                   batches, training_jobs, cache, cursor, data_files>>

\* _save_failed_version: db.add(failed_version); db.commit()
CommitFailed(s) ==
    /\ sess[s].pc = "commit_failed"
    /\ LET num == sess[s].version_num[1]
           raised == VersionExists(versions, num)
           saved == _save_failed_version(versions, sess[s].weights, sess[s].ml_auc,
                                         sess[s].reason)
       IN /\ versions' = IF raised
                         THEN versions
                         ELSE [saved EXCEPT ![Len(saved)].version = num]
          /\ last' = [op |-> "create_version_from_ml", session |-> s,
                      raised |-> raised, status |-> "failed"]
    /\ sess' = [sess EXCEPT ![s] = [pc |-> "idle"]]
    /\ UNCHANGED <<features, score_requests, registry, transactions,
                   relationships, now,
                   labels, model_registry, args,
                   batches, training_jobs, cache, cursor, data_files>>

\* ensure_initial_version: exists = query(version == '1.0').first()
QueryInitialExists(s) ==
    /\ sess[s].pc = "idle"
    /\ Len(versions) + Cardinality(InFlight) < MaxVersions
    /\ sess' = [sess EXCEPT ![s] =
                   [pc |-> IF VersionExists(versions, <<1, 0>>)
                           THEN "idle"
                           ELSE "commit_initial"]]
    /\ UNCHANGED <<versions, features, score_requests, registry, transactions,
                   relationships, now, last,
                   labels, model_registry, args,
                   batches, training_jobs, cache, cursor, data_files>>

\* ensure_initial_version: db.add(initial); db.commit()
CommitInitial(s) ==
    /\ sess[s].pc = "commit_initial"
    /\ LET raised == VersionExists(versions, <<1, 0>>)
       IN /\ versions' = IF raised
                         THEN versions
                         ELSE Append(versions,
                                     [InitialVersion(now) EXCEPT !.id = Len(versions) + 1])
          /\ last' = [op |-> "ensure_initial_version", session |-> s,
                      raised |-> raised, status |-> "active"]
    /\ sess' = [sess EXCEPT ![s] = [pc |-> "idle"]]
    /\ UNCHANGED <<features, score_requests, registry, transactions,
                   relationships, now,
                   labels, model_registry, args,
                   batches, training_jobs, cache, cursor, data_files>>

PromoteAucValues == {549, 560}

NextPromoteConc ==
    \E s \in Sessions :
        \/ \E a \in PromoteAucValues : BeginCreateVersion(s, a)
        \/ QueryActiveScorecard(s)
        \/ QueryCurrentVersion(s)
        \/ QueryNextVersionNumber(s)
        \/ CommitVersion(s)
        \/ CommitFailed(s)
        \/ QueryInitialExists(s)
        \/ CommitInitial(s)

SpecPromoteConc == Init /\ [][NextPromoteConc]_vars

----------------------------------------------------------------------------
(* The feature store under two database sessions running extract_features    *)
(* for the present (as_of_date None).  The expiring UPDATE runs in the        *)
(* session's transaction: it matches the rows committed when it starts, waits *)
(* for a row another transaction has updated, and skips a row that no longer  *)
(* matches once the wait is over.                                             *)

MaxConcurrentRows == 12

LockedBy(s) == IF sess[s].pc \in {"insert"} THEN sess[s].expired ELSE {}
LockedByOthers(s) == UNION {LockedBy(o) : o \in Sessions \ {s}}
PendingRows(s) == IF sess[s].pc = "idle" THEN 0 ELSE Len(sess[s].all_features)

\* extract_features down to the call of _store_features
RunTargetExtractors(s, p, source_types) ==
    LET feats == AllFeatures(source_types, {}, transactions, relationships, p, None, now)
    IN /\ sess[s].pc = "idle"
       /\ Len(features) + Len(feats) + PendingRows(1) + PendingRows(2) <= MaxConcurrentRows
       /\ sess' = [sess EXCEPT ![s] =
                      [pc |-> "update",
                       party_id |-> p,
                       affected_sources |-> AffectedSources(source_types),
                       all_features |-> feats,
                       matched |-> {},
                       expired |-> {}]]
       /\ UNCHANGED <<versions, features, score_requests, registry, transactions,
                      relationships, now, last,
                   labels, model_registry, args,
                   batches, training_jobs, cache, cursor, data_files>>

\* query.update(...) starts: the rows it matches; it expires them at once
\* unless one of them is locked by the other transaction
StartExpire(s) ==
    /\ sess[s].pc = "update"
    /\ LET ids == ExpiryTargets(features, sess[s].party_id, sess[s].affected_sources)
       IN sess' = IF ids \cap LockedByOthers(s) = {}
                  THEN [sess EXCEPT ![s].pc = "insert", ![s].expired = ids]
                  ELSE [sess EXCEPT ![s].pc = "update_wait", ![s].matched = ids]
    /\ UNCHANGED <<versions, features, score_requests, registry, transactions,
                   relationships, now, last,
                   labels, model_registry, args,
                   batches, training_jobs, cache, cursor, data_files>>

\* the blocked UPDATE resumes: of the rows it matched, those still current
ResumeExpire(s) ==
    /\ sess[s].pc = "update_wait"
    /\ sess[s].matched \cap LockedByOthers(s) = {}
    /\ sess' = [sess EXCEPT ![s].pc = "insert",
                            ![s].expired = {i \in sess[s].matched : features[i].valid_to = None}]
    /\ UNCHANGED <<versions, features, score_requests, registry, transactions,
                   relationships, now, last,
                   labels, model_registry, args,
                   batches, training_jobs, cache, cursor, data_files>>

\* the INSERTs and db.commit()
InsertAndCommit(s) ==
    /\ sess[s].pc = "insert"
    /\ features' = ExpireRows(features, sess[s].expired, now)
                       \o NewFeatureRows(sess[s].party_id, sess[s].all_features, now)
    /\ last' = [op |-> "extract_features", session |-> s,
                party_id |-> sess[s].party_id]
    /\ sess' = [sess EXCEPT ![s] = [pc |-> "idle"]]
    /\ UNCHANGED <<versions, score_requests, registry, transactions,
                   relationships, now,
                   labels, model_registry, args,
                   batches, training_jobs, cache, cursor, data_files>>

ConcurrentSourceTypes == {Some({"KYC"}), Some({"RELATIONSHIPS"})}

NextExtractConc ==
    \E s \in Sessions :
        \/ \E p \in FeatureParties, st \in ConcurrentSourceTypes : RunTargetExtractors(s, p, st)
        \/ StartExpire(s)
        \/ ResumeExpire(s)
        \/ InsertAndCommit(s)

SpecExtractConc == Init /\ [][NextExtractConc]_vars

----------------------------------------------------------------------------
(* Training guard: TemporalValidationService.validate_training_request over  *)
(* score records, ground-truth labels and the model_registry table           *)

MaxLabels == 2
MaxModels == 1

\* crud.create_ground_truth_label; party_id is a unique column
create_ground_truth_label(party_id, dataset_batch) ==
    LET raised == \E i \in DOMAIN labels : labels[i].party_id = party_id
    IN /\ Len(labels) < MaxLabels
       /\ labels' = IF raised
                    THEN labels
                    ELSE Append(labels, [party_id |-> party_id,
                                         dataset_batch |-> dataset_batch])
       /\ last' = [op |-> "create_ground_truth_label", raised |-> raised]
       /\ UNCHANGED <<versions, features, score_requests, registry, transactions,
                      relationships, now, sess, model_registry, args,
                   batches, training_jobs, cache, cursor, data_files>>

\* crud.create_model_registry, as save_to_registry and save_as_scorecard call
\* it; model_version is the primary key
create_model_registry(model_version, model_type) ==
    LET raised == \E i \in DOMAIN model_registry :
                      model_registry[i].model_version = model_version
    IN /\ Len(model_registry) < MaxModels
       /\ model_registry' = IF raised
                            THEN model_registry
                            ELSE Append(model_registry,
                                        [model_version |-> model_version,
                                         model_type |-> model_type,
                                         is_active |-> 0])
       /\ last' = [op |-> "create_model_registry", raised |-> raised]
       /\ UNCHANGED <<versions, features, score_requests, registry, transactions,
                      relationships, now, sess, labels, args,
                   batches, training_jobs, cache, cursor, data_files>>

\* query(GroundTruthLabel).filter(dataset_batch == batch_id).count()
CountLabels(lb, batch_id) ==
    Cardinality({i \in DOMAIN lb : lb[i].dataset_batch = batch_id})

\* if model_count == 0: pass (bootstrap allowed)
BootstrapAllowed(model_count) == model_count = 0

NoLabels_ignored(count_labels) == FALSE

\* if count_labels == 0: raise ValueError
NoLabels(count_labels) == count_labels = 0

\* validate_training_request: what the call raises ("none": it returns)
ValidateTrainingRequest(sr, mr, lb, batch_id) ==
    IF CountScores(sr, batch_id) = 0 /\ ~BootstrapAllowed(Len(mr))
    THEN [raised |-> "ValueError", message |-> "batch has not been scored yet"]
    ELSE IF NoLabels(CountLabels(lb, batch_id))
         THEN [raised |-> "ValueError", message |-> "labels not ingested yet"]
         ELSE [raised |-> "none", message |-> ""]

validate_training_request(batch_id) ==
    /\ last' = [op |-> "validate_training_request",
                batch_id |-> batch_id,
                result |-> ValidateTrainingRequest(score_requests, model_registry,
                                                   labels, batch_id),
                pre |-> Tables]
    /\ UNCHANGED <<versions, features, score_requests, registry, transactions,
                   relationships, now, sess, labels, model_registry, args,
                   batches, training_jobs, cache, cursor, data_files>>

IngestLabelCall ==
    \E p \in PartyIds : create_ground_truth_label(p, PartyTable[p].batch_id)

SaveModelCall ==
    \E mt \in {"ml_model", "scorecard"} : create_model_registry("v1", mt)

\* refine_scorecard: ensure_initial_version is run before this call
RefineScorecardCall ==
    \E a \in PromoteAucValues : create_version_from_ml("w_a", a)

ValidateTrainingCall == \E b \in BatchIds : validate_training_request(b)

NextTraining ==
    \/ IngestLabelCall
    \/ SaveModelCall
    \/ RefineScorecardCall
    \/ ScorePartyCall
    \/ ValidateTrainingCall

SpecTraining == Init /\ [][NextTraining]_vars

----------------------------------------------------------------------------
(* Scorecard Engine: ScorecardEngine.compute_scorecard_score.  Feature values *)
(* and points are integers in hundredths (2.5 is 250); the inputs are chosen  *)
(* so that every quotient below is exact.                                     *)

\* The features of self.weights, in the order the dict is iterated
WeightedFeatures ==
    <<"kyc_verified", "company_age_years", "avg_transaction_amount",
      "contact_completeness">>

\* self.scaling.get(feature_name, {}) with the defaults 'linear' and 1
ScalingOf(config, feature_name) ==
    IF feature_name \in DOMAIN config.feature_scaling
    THEN config.feature_scaling[feature_name]
    ELSE [method |-> "linear", max_value |-> 1]

Min(a, b) == IF a <= b THEN a ELSE b

\* math.log10(x + 1) for the values x (in hundredths) it is exact on
Log10Plus1(x) ==
    CASE x = 900 -> 1
      [] x = 9900 -> 2
      [] x = 99900 -> 3

BooleanFeatures == {"kyc_verified", "has_tax_id", "recent_activity_flag"}

\* _compute_feature_contribution, in hundredths of a point
_compute_feature_contribution(config, feature_name, value, weight) ==
    LET sc == ScalingOf(config, feature_name)
    IN IF feature_name \in BooleanFeatures
       THEN (IF value # 0 THEN 100 * weight ELSE 0)
       ELSE IF sc.method = "cap"
            THEN (Min(value, 100 * sc.max_value) * weight) \div sc.max_value
            ELSE IF sc.method = "log_scale"
                 THEN (IF value <= 0
                       THEN 0
                       ELSE Min((100 * Log10Plus1(value)) \div Log10Plus1(100 * sc.max_value),
                                100) * weight)
                 ELSE (IF value > 100
                       THEN Min(value \div 100, 100) * weight
                       ELSE value * weight)

\* feature_name not in features or features[feature_name] is None
IsMissing(feats, feature_name) ==
    feature_name \notin DOMAIN feats \/ feats[feature_name] = None

Contribution_defaulted(config, feats, k) ==
    IF IsMissing(feats, WeightedFeatures[k])
    THEN 100 * config.weights[k]
    ELSE _compute_feature_contribution(config, WeightedFeatures[k],
                                       feats[WeightedFeatures[k]][1], config.weights[k])

\* contributions[feature_name] of the k-th weighted feature
Contribution(config, feats, k) ==
    IF IsMissing(feats, WeightedFeatures[k])
    THEN 0
    ELSE _compute_feature_contribution(config, WeightedFeatures[k],
                                       feats[WeightedFeatures[k]][1], config.weights[k])

RECURSIVE TotalPoints(_, _, _)
TotalPoints(config, feats, k) ==
    IF k = 0 THEN 0 ELSE TotalPoints(config, feats, k - 1) + Contribution(config, feats, k)

RECURSIVE MissingFeatures(_, _)
MissingFeatures(feats, k) ==
    IF k = 0
    THEN <<>>
    ELSE MissingFeatures(feats, k - 1)
             \o (IF IsMissing(feats, WeightedFeatures[k])
                 THEN <<WeightedFeatures[k]>>
                 ELSE <<>>)

FinalScore_unclamped(base_score, max_score, raw_score) == raw_score

\* max(self.base_score, min(self.max_score, raw_score))
FinalScore(base_score, max_score, raw_score) ==
    Max(base_score, Min(max_score, raw_score))

\* compute_scorecard_score at time t
ComputeScorecardScore(config, feats, t) ==
    LET raw_score == 100 * config.base_score
                         + TotalPoints(config, feats, Len(WeightedFeatures))
    IN [score |-> FinalScore(100 * config.base_score, 100 * config.max_score, raw_score),
        raw_score |-> raw_score,
        contributions |-> [k \in 1..Len(WeightedFeatures) |-> Contribution(config, feats, k)],
        missing_features |-> MissingFeatures(feats, Len(WeightedFeatures)),
        scorecard_version |-> config.version,
        computed_at |-> t]

compute_scorecard_score ==
    /\ args.op = "compute_scorecard_score"
    /\ last' = [op |-> "compute_scorecard_score",
                out |-> ComputeScorecardScore(args.config, args.features, now),
                prev_out |-> IF last.op = "compute_scorecard_score"
                             THEN Some(last.out)
                             ELSE None]
    /\ UNCHANGED <<versions, features, score_requests, registry, transactions,
                   relationships, now, sess, labels, model_registry, args,
                   batches, training_jobs, cache, cursor, data_files>>

\* The values a feature may carry (hundredths), besides None and absence
FeatureValueChoices(feature_name) ==
    CASE feature_name = "kyc_verified" -> {0, 100}
      [] feature_name = "company_age_years" -> {-200, 250, 800}
      [] feature_name = "avg_transaction_amount" -> {0, 900, 99900}
      [] feature_name = "contact_completeness" -> {50, 7500, 15000}

EngineWeights == {-20, 15}
EngineMaxScores == {310, 900}

EngineConfigs ==
    {[version |-> <<1, 1>>,
      base_score |-> 300,
      max_score |-> m,
      weights |-> w,
      feature_scaling |->
          ("company_age_years" :> [method |-> "cap", max_value |-> 5])
          @@ ("avg_transaction_amount" :> [method |-> "log_scale", max_value |-> 99])] :
        m \in EngineMaxScores, w \in [1..Len(WeightedFeatures) -> EngineWeights]}

EngineFeatureDicts ==
    UNION {
        {f \in [keys -> {None} \cup {Some(v) : v \in
                    UNION {FeatureValueChoices(WeightedFeatures[k]) :
                               k \in 1..Len(WeightedFeatures)}}] :
            \A name \in keys :
                f[name] = None \/ f[name][1] \in FeatureValueChoices(name)} :
        keys \in SUBSET {WeightedFeatures[k] : k \in 1..Len(WeightedFeatures)}}

InitEngine ==
    /\ versions = <<>>
    /\ features = <<>>
    /\ score_requests = <<>>
    /\ registry = <<>>
    /\ transactions = <<>>
    /\ relationships = <<>>
    /\ now = 0
    /\ last = NoCall
    /\ sess = NoSessions
    /\ labels = <<>>
    /\ model_registry = <<>>
    /\ batches = <<>>
    /\ training_jobs = <<>>
    /\ cache = <<>>
    /\ cursor = <<>>
    /\ data_files = {}
    /\ \E config \in EngineConfigs, feats \in EngineFeatureDicts :
          args = [op |-> "compute_scorecard_score", config |-> config, features |-> feats]

NextEngine ==
    \/ compute_scorecard_score
    \/ Tick

SpecEngine == InitEngine /\ [][NextEngine]_vars

----------------------------------------------------------------------------
(* ML to scorecard conversion: ModelTrainingService.convert_to_scorecard and  *)
(* _extract_ml_weights.  Coefficients and the intercept are integers in one   *)
(* common unit; quotients are exact rationals n/d until int() or round().     *)

MaxCoefficients == 3

Abs(x) == IF x < 0 THEN -x ELSE x

\* int(n/d) for d > 0: truncation toward zero
PythonInt(n, d) == IF n >= 0 THEN n \div d ELSE -((-n) \div d)

\* round(n/d) for d > 0: to the nearest integer, a tie to the even one
PythonRound(n, d) ==
    LET q == Abs(n) \div d
        r == Abs(n) % d
        m == IF 2 * r > d \/ (2 * r = d /\ q % 2 = 1) THEN q + 1 ELSE q
    IN IF n >= 0 THEN m ELSE -m

RECURSIVE AbsSum(_, _)
AbsSum(coefficients, k) ==
    IF k = 0 THEN 0 ELSE AbsSum(coefficients, k - 1) + Abs(coefficients[k])

RECURSIVE MaxAbs(_, _)
MaxAbs(coefficients, k) ==
    IF k = 0 THEN 0 ELSE Max(MaxAbs(coefficients, k - 1), Abs(coefficients[k]))

Points_sign_flipped(coef, abs_sum, total_points) == PythonInt(-coef * total_points, abs_sum)

\* points = int((coef / abs_sum) * total_points)
Points(coef, abs_sum, total_points) == PythonInt(coef * total_points, abs_sum)

\* convert_to_scorecard on a model with coef_ and intercept_
ConvertToScorecard(coefficients, intercept, feature_names, total_points) ==
    LET abs_sum == AbsSum(coefficients, Len(coefficients))
    IN [model_type |-> "scorecard",
        weights |-> IF abs_sum = 0
                    THEN [k \in DOMAIN feature_names |-> 0]
                    ELSE [k \in DOMAIN feature_names |->
                             Points(coefficients[k], abs_sum, total_points)],
        intercept |-> IF abs_sum = 0
                      THEN 50
                      ELSE Max(0, Min(100, PythonInt(50 * abs_sum + 25 * intercept, abs_sum))),
        features |-> feature_names,
        conversion_method |-> "ml_coefficient_scaling",
        total_points_scale |-> total_points]

convert_to_scorecard ==
    /\ args.op = "convert"
    /\ last' = IF args.coef_ = None
               THEN [op |-> "convert_to_scorecard", raised |-> "AttributeError"]
               ELSE [op |-> "convert_to_scorecard", raised |-> "none",
                     total_points |-> 100,
                     ret |-> ConvertToScorecard(args.coef_[1], args.intercept_,
                                                args.feature_names, 100)]
    /\ UNCHANGED <<versions, features, score_requests, registry, transactions,
                   relationships, now, sess, labels, model_registry, args,
                   batches, training_jobs, cache, cursor, data_files>>

\* weight = int(round(coef * scale_factor)), scale_factor = 25 / max_abs_coef
\* (1 when max_abs_coef is 0)
ScaledWeight(coef, max_abs_coef) ==
    IF max_abs_coef > 0 THEN PythonRound(coef * 25, max_abs_coef) ELSE PythonRound(coef, 1)

\* _extract_ml_weights on a model with coef_: the weights per position, the
\* zero ones being left out of the dict
ExtractMlWeights(coefficients, feature_names) ==
    LET max_abs_coef == IF Len(coefficients) > 0
                        THEN MaxAbs(coefficients, Len(coefficients))
                        ELSE 1
        kept == {k \in DOMAIN feature_names : ScaledWeight(coefficients[k], max_abs_coef) # 0}
    IN [k \in kept |-> ScaledWeight(coefficients[k], max_abs_coef)]

_extract_ml_weights ==
    /\ args.op = "convert"
    /\ last' = [op |-> "_extract_ml_weights", raised |-> "none",
                total_points |-> 25,
                ret |-> [weights |-> IF args.coef_ = None
                                     THEN <<>>
                                     ELSE ExtractMlWeights(args.coef_[1], args.feature_names)]]
    /\ UNCHANGED <<versions, features, score_requests, registry, transactions,
                   relationships, now, sess, labels, model_registry, args,
                   batches, training_jobs, cache, cursor, data_files>>

CoefficientValues == {-30, -10, -1, 0, 7, 15, 30}
InterceptValues == {-60, 0, 25}
ModelFeatureNames ==
    <<"kyc_verified", "company_age_years", "avg_transaction_amount",
      "contact_completeness", "network_size">>

\* A trained model: coef_ (None: the object has no coef_) and its feature names
InitConverter ==
    /\ versions = <<>>
    /\ features = <<>>
    /\ score_requests = <<>>
    /\ registry = <<>>
    /\ transactions = <<>>
    /\ relationships = <<>>
    /\ now = 0
    /\ last = NoCall
    /\ sess = NoSessions
    /\ labels = <<>>
    /\ model_registry = <<>>
    /\ batches = <<>>
    /\ training_jobs = <<>>
    /\ cache = <<>>
    /\ cursor = <<>>
    /\ data_files = {}
    /\ \E n \in 1..MaxCoefficients, i \in InterceptValues :
          \E c \in {None} \cup {Some(q) : q \in [1..n -> CoefficientValues]} :
              args = [op |-> "convert",
                      coef_ |-> c,
                      intercept_ |-> i,
                      feature_names |-> SubSeq(ModelFeatureNames, 1, n)]

NextConverter ==
    \/ convert_to_scorecard
    \/ _extract_ml_weights

SpecConverter == InitConverter /\ [][NextConverter]_vars

----------------------------------------------------------------------------
(* Decision rules: ScoringService._apply_decision_rules *)

MaxRules == 2

\* A condition_expression "name op value" is [feature, op, value].
\* eval(expression, context): an unbound name raises NameError.
EvalCondition(expr, feats) ==
    IF expr.feature \notin DOMAIN feats
    THEN "raises"
    ELSE LET x == feats[expr.feature]
             holds == CASE expr.op = "==" -> x = expr.value
                        [] expr.op = "<" -> x < expr.value
                        [] expr.op = ">=" -> x >= expr.value
         IN IF holds THEN "true" ELSE "false"

\* query(DecisionRule).filter(is_active == 1).order_by(priority).all():
\* the active rows by ascending priority, rows of equal priority in any order
QueryActiveRulesByPriority(tbl) ==
    LET active == {i \in DOMAIN tbl : tbl[i].is_active = 1}
    IN {o \in [1..Cardinality(active) -> active] :
           /\ \A a, b \in DOMAIN o : a # b => o[a] # o[b]
           /\ \A a, b \in DOMAIN o : a < b => tbl[o[a]].priority <= tbl[o[b]].priority}

\* the positions of the rules whose condition evaluates to a true value
\* (a rule whose evaluation raises is skipped)
MatchingPositions(tbl, order, feats) ==
    {k \in DOMAIN order :
        EvalCondition(tbl[order[k]].condition_expression, feats) = "true"}

DecidingPosition_last_match(S) == CHOOSE k \in S : \A j \in S : j <= k

\* the loop returns at the first rule that matches
DecidingPosition(S) == CHOOSE k \in S : \A j \in S : k <= j

ApplyDecisionRules(tbl, order, feats) ==
    LET S == MatchingPositions(tbl, order, feats)
    IN IF S = {}
       THEN <<"approved", <<>>>>
       ELSE LET rule == tbl[order[DecidingPosition(S)]]
            IN <<rule.action, <<rule.rule_name>>>>

_apply_decision_rules ==
    /\ args.op = "_apply_decision_rules"
    /\ \E rules \in QueryActiveRulesByPriority(args.decision_rules) :
           last' = [op |-> "_apply_decision_rules",
                    rules |-> rules,
                    ret |-> ApplyDecisionRules(args.decision_rules, rules, args.features)]
    /\ UNCHANGED <<versions, features, score_requests, registry, transactions,
                   relationships, now, sess, labels, model_registry, args,
                   batches, training_jobs, cache, cursor, data_files>>

RuleConditions ==
    {[feature |-> "kyc_verified", op |-> "==", value |-> 0],
     [feature |-> "transaction_count_6m", op |-> "<", value |-> 5],
     [feature |-> "transaction_count_6m", op |-> ">=", value |-> 5]}

RuleActions == {"reject", "manual_review"}
RulePriorities == {1, 2}

\* decision_rules tables of n rows; the row at index i is rule <<"rule", i>>
DecisionRuleTables(n) ==
    {tbl \in [1..n -> [rule_name : {<<"rule", i>> : i \in 1..n},
                       condition_expression : RuleConditions,
                       action : RuleActions,
                       priority : RulePriorities,
                       is_active : {0, 1}]] :
        \A i \in 1..n : tbl[i].rule_name = <<"rule", i>>}

RuleFeatureDicts ==
    UNION {[keys -> {0, 1, 2, 9}] : keys \in SUBSET {"kyc_verified", "transaction_count_6m"}}

InitRules ==
    /\ versions = <<>>
    /\ features = <<>>
    /\ score_requests = <<>>
    /\ registry = <<>>
    /\ transactions = <<>>
    /\ relationships = <<>>
    /\ now = 0
    /\ last = NoCall
    /\ sess = NoSessions
    /\ labels = <<>>
    /\ model_registry = <<>>
    /\ batches = <<>>
    /\ training_jobs = <<>>
    /\ cache = <<>>
    /\ cursor = <<>>
    /\ data_files = {}
    /\ \E n \in 0..MaxRules :
          \E tbl \in DecisionRuleTables(n), feats \in RuleFeatureDicts :
              args = [op |-> "_apply_decision_rules", decision_rules |-> tbl,
                      features |-> feats]

NextRules == _apply_decision_rules

SpecRules == InitRules /\ [][NextRules]_vars

----------------------------------------------------------------------------
(* Batch lifecycle: the pipeline API and the outcome-label script *)

BatchStatusOrder ==
    <<"generating", "ingesting", "scored", "outcomes_generated", "training_ready">>

LaunchRunOutcomes_raising == {"success", "no_success", "raises"}

\* DagsterClient.launch_run: every exception of the request is caught and
\* turned into {"success": False, ...}; the call returns a dict.
LaunchRunOutcomes == {"success", "no_success"}

SetBatchStatus(b, status) == [batches EXCEPT ![b].status = status]

\* run_pipeline up to the first commit: the Batch row with status 'generating'
RunPipelineCreate(s) ==
    /\ sess[s].pc = "idle"
    /\ \E b \in BatchIds \ DOMAIN batches :
          /\ batches' = batches @@ (b :> [status |-> "generating", created_at |-> now])
          /\ sess' = [sess EXCEPT ![s] = [pc |-> "generate_new_batch", batch |-> b]]
    /\ UNCHANGED <<versions, features, score_requests, registry, transactions,
                   relationships, now, last, labels, model_registry, args,
                   training_jobs, cache, cursor, data_files>>

\* generate_new_batch: on an exception the batch is marked 'failed' and the
\* request answers 500
RunPipelineGenerate(s) ==
    /\ sess[s].pc = "generate_new_batch"
    /\ \E generated \in BOOLEAN :
          IF generated
          THEN /\ sess' = [sess EXCEPT ![s].pc = "trigger"]
               /\ UNCHANGED <<batches, last>>
          ELSE /\ batches' = SetBatchStatus(sess[s].batch, "failed")
               /\ sess' = [sess EXCEPT ![s] = [pc |-> "idle"]]
               /\ last' = [op |-> "run_pipeline", batch_id |-> sess[s].batch,
                           http |-> 500]
    /\ UNCHANGED <<versions, features, score_requests, registry, transactions,
                   relationships, now, labels, model_registry, args,
                   training_jobs, cache, cursor, data_files>>

\* the import of the client and the commit of 'ingesting'; when either
\* raises, nothing was committed and the handler writes 'generating'
RunPipelineSetIngesting(s) ==
    /\ sess[s].pc = "trigger"
    /\ \E raised \in BOOLEAN :
          IF raised
          THEN /\ batches' = SetBatchStatus(sess[s].batch, "generating")
               /\ sess' = [sess EXCEPT ![s] = [pc |-> "idle"]]
               /\ last' = [op |-> "run_pipeline", batch_id |-> sess[s].batch,
                           http |-> 200]
          ELSE /\ batches' = SetBatchStatus(sess[s].batch, "ingesting")
               /\ sess' = [sess EXCEPT ![s].pc = "launch_run"]
               /\ UNCHANGED last
    /\ UNCHANGED <<versions, features, score_requests, registry, transactions,
                   relationships, now, labels, model_registry, args,
                   training_jobs, cache, cursor, data_files>>

\* client.launch_run(...) and the except branch around it
RunPipelineLaunch(s) ==
    /\ sess[s].pc = "launch_run"
    /\ \E outcome \in LaunchRunOutcomes :
          batches' = IF outcome = "raises"
                     THEN SetBatchStatus(sess[s].batch, "generating")
                     ELSE batches
    /\ sess' = [sess EXCEPT ![s] = [pc |-> "idle"]]
    /\ last' = [op |-> "run_pipeline", batch_id |-> sess[s].batch, http |-> 200]
    /\ UNCHANGED <<versions, features, score_requests, registry, transactions,
                   relationships, now, labels, model_registry, args,
                   training_jobs, cache, cursor, data_files>>

\* The batch lifecycle store of the orchestrator: a scored batch is marked
\* 'scored', a batch whose outcomes exist 'training_ready'.
BatchLifecycleStore ==
    /\ \E b \in DOMAIN batches :
          \/ /\ batches[b].status = "ingesting"
             /\ batches' = SetBatchStatus(b, "scored")
          \/ /\ batches[b].status = "outcomes_generated"
             /\ batches' = SetBatchStatus(b, "training_ready")
    /\ UNCHANGED <<versions, features, score_requests, registry, transactions,
                   relationships, now, last, sess, labels, model_registry, args,
                   training_jobs, cache, cursor, data_files>>

\* the parties of the batch that have a ScoreRequest
ScoredParties(batch_id) ==
    {p \in PartyIds :
        /\ PartyTable[p].batch_id = batch_id
        /\ \E i \in DOMAIN score_requests : score_requests[i].party_id = p}

ObservedLabels(batch_id) ==
    {i \in DOMAIN labels :
        /\ labels[i].label_source = "observed"
        /\ labels[i].party_id \in PartyIds
        /\ PartyTable[labels[i].party_id].batch_id = batch_id}

RECURSIVE OutcomeLabels(_, _)
OutcomeLabels(parties, batch_id) ==
    IF parties = {}
    THEN <<>>
    ELSE LET p == CHOOSE q \in parties : \A r \in parties : q <= r
         IN <<[party_id |-> p, dataset_batch |-> batch_id,
               label_source |-> "observed"]>>
            \o OutcomeLabels(parties \ {p}, batch_id)

GenerateOutcomeLabelsError(batch_id) ==
    IF batch_id \notin DOMAIN batches THEN "not found"
    ELSE IF batches[batch_id].status = "outcomes_generated"
                \/ (batches[batch_id].status = "scored" /\ ObservedLabels(batch_id) # {})
         THEN "already generated"
    ELSE IF batches[batch_id].status # "scored" THEN "not scored yet"
    ELSE IF ScoredParties(batch_id) = {} THEN "no scores"
    ELSE "none"

generate_outcome_labels(batch_id) ==
    LET error == GenerateOutcomeLabelsError(batch_id)
        new_labels == OutcomeLabels(ScoredParties(batch_id), batch_id)
    IN /\ Len(labels) + Len(new_labels) <= MaxLabels
       /\ labels' = IF error = "none" THEN labels \o new_labels ELSE labels
       /\ batches' = IF error = "none"
                     THEN SetBatchStatus(batch_id, "outcomes_generated")
                     ELSE batches
       /\ last' = [op |-> "generate_outcome_labels", batch_id |-> batch_id,
                   raised |-> error]
       /\ UNCHANGED <<versions, features, score_requests, registry, transactions,
                      relationships, now, sess, model_registry, args,
                      training_jobs, cache, cursor, data_files>>

GenerateOutcomesCall == \E b \in BatchIds : generate_outcome_labels(b)

NextBatches ==
    \/ \E s \in DOMAIN sess :
          \/ RunPipelineCreate(s)
          \/ RunPipelineGenerate(s)
          \/ RunPipelineSetIngesting(s)
          \/ RunPipelineLaunch(s)
    \/ BatchLifecycleStore
    \/ ScorePartyCall
    \/ GenerateOutcomesCall

SpecBatches == Init /\ [][NextBatches]_vars

----------------------------------------------------------------------------
(* Training jobs: the train-model endpoint *)

MIN_OBSERVED_LABELS == 500

\* order_by(Batch.created_at.desc()).first() among the given batches
LatestBatches(ids) ==
    {b \in ids : \A c \in ids : batches[c].created_at <= batches[b].created_at}

\* train_model_endpoint; count is the number of 'observed' labels, outcome
\* what client.launch_run returns
train_model_endpoint(count, outcome) ==
    LET active_job == \E i \in DOMAIN training_jobs : training_jobs[i].status = "running"
        ready == {b \in DOMAIN batches : batches[b].status = "outcomes_generated"}
        candidates == IF ready # {} THEN ready ELSE DOMAIN batches
        rejected == IF active_job THEN "Training already in progress"
                    ELSE IF count < MIN_OBSERVED_LABELS THEN "Insufficient data"
                    ELSE IF candidates = {} THEN "No batches found to train on."
                    ELSE "none"
    IN /\ training_jobs' =
              IF rejected = "none"
              THEN Append(training_jobs,
                          [status |-> "running", started_at |-> now,
                           training_data_count |-> count])
              ELSE training_jobs
       /\ \E latest_batch \in QueryFirst(LatestBatches(candidates)) :
              last' = [op |-> "train_model_endpoint",
                       http |-> IF rejected # "none" THEN 400
                                ELSE IF outcome = "success" THEN 200 ELSE 500,
                       detail |-> IF rejected # "none" THEN rejected
                                  ELSE IF outcome = "success" THEN "Model training started."
                                  ELSE "Dagster trigger failed",
                       batch_id |-> latest_batch]
       /\ UNCHANGED <<versions, features, score_requests, registry, transactions,
                      relationships, now, sess, labels, model_registry, args,
                      batches, cache, cursor, data_files>>

TrainModelCall ==
    \E count \in {MIN_OBSERVED_LABELS - 1, MIN_OBSERVED_LABELS},
       outcome \in LaunchRunOutcomes :
        train_model_endpoint(count, outcome)

NextTrainJobs ==
    \/ \E s \in DOMAIN sess :
          \/ RunPipelineCreate(s)
          \/ RunPipelineGenerate(s)
          \/ RunPipelineSetIngesting(s)
          \/ RunPipelineLaunch(s)
    \/ TrainModelCall
    \/ Tick

SpecTrainJobs == Init /\ [][NextTrainJobs]_vars

----------------------------------------------------------------------------
(* Version numbering: _get_next_version_number on any latest version string *)

\* version strings of the latest row: "1.0", "1.9", "3", "x", "1.x", "x.4",
\* "2.3.1"
LatestVersionStrings ==
    {<<1, 0>>, <<1, 9>>, <<3>>, <<-1>>, <<1, -1>>, <<-1, 4>>, <<2, 3, 1>>}

GetNextVersionNumberCall ==
    /\ args.op = "_get_next_version_number"
    /\ last' = [op |-> "_get_next_version_number",
                ret |-> _get_next_version_number(<<[version |-> args.latest]>>)]
    /\ UNCHANGED <<versions, features, score_requests, registry, transactions,
                   relationships, now, sess, labels, model_registry, args,
                   batches, training_jobs, cache, cursor, data_files>>

CreateNumberedVersionCall ==
    \E a \in PromoteAucValues \cup {550} : create_version_from_ml("w_a", a)

InitVersions ==
    /\ versions = <<>>
    /\ features = <<>>
    /\ score_requests = <<>>
    /\ registry = <<>>
    /\ transactions = <<>>
    /\ relationships = <<>>
    /\ now = 0
    /\ last = NoCall
    /\ sess = NoSessions
    /\ labels = <<>>
    /\ model_registry = <<>>
    /\ batches = <<>>
    /\ training_jobs = <<>>
    /\ cache = <<>>
    /\ cursor = <<>>
    /\ data_files = {}
    /\ \E v \in LatestVersionStrings :
          args = [op |-> "_get_next_version_number", latest |-> v]

NextVersions ==
    \/ CreateNumberedVersionCall
    \/ ensure_initial_version
    \/ GetNextVersionNumberCall

SpecVersions == InitVersions /\ [][NextVersions]_vars

----------------------------------------------------------------------------
(* TTLCache: key -> (value, timestamp), read with an age check *)

MaxCacheClock == 2

\* a key "party:{id}:features:{kind}" is <<id, kind>>
CacheKeys == {<<1, "all">>, <<2, "all">>}
CacheValues == {"features_a", "features_b"}

\* the calls made so far: per key the latest set (value and time) that no
\* clear followed
LatestSets == IF "latest_set" \in DOMAIN last
              THEN last.latest_set
              ELSE [k \in CacheKeys |-> None]

Expired_at_ttl(age, ttl_seconds) == age >= ttl_seconds

\* if age > self.ttl_seconds
Expired(age, ttl_seconds) == age > ttl_seconds

Without(c, keys) == [k \in DOMAIN c \ keys |-> c[k]]

\* TTLCache.set
cache_set(key, value) ==
    /\ cache' = [k \in DOMAIN cache \cup {key} |->
                    IF k = key THEN [value |-> value, timestamp |-> now] ELSE cache[k]]
    /\ last' = [op |-> "set", key |-> key, at |-> now,
                latest_set |-> [LatestSets EXCEPT ![key] = Some([value |-> value, at |-> now])]]
    /\ UNCHANGED <<versions, features, score_requests, registry, transactions,
                   relationships, now, sess, labels, model_registry, args,
                   batches, training_jobs, cursor, data_files>>

\* TTLCache.get
cache_get(key) ==
    LET present == key \in DOMAIN cache
        expired == present /\ Expired(now - cache[key].timestamp, args.ttl_seconds)
    IN /\ cache' = IF expired THEN Without(cache, {key}) ELSE cache
       /\ last' = [op |-> "get", key |-> key, at |-> now,
                   ret |-> IF present /\ ~expired THEN Some(cache[key].value) ELSE None,
                   latest_set |-> LatestSets]
       /\ UNCHANGED <<versions, features, score_requests, registry, transactions,
                      relationships, now, sess, labels, model_registry, args,
                      batches, training_jobs, cursor, data_files>>

\* TTLCache.clear, clear_party and clear_all: the keys they delete
ClearedKeys(call) ==
    CASE call.op = "clear" -> {call.key}
      [] call.op = "clear_party" -> {k \in CacheKeys : k[1] = call.party_id}
      [] call.op = "clear_all" -> CacheKeys

cache_clear(call) ==
    /\ cache' = Without(cache, ClearedKeys(call))
    /\ last' = [op |-> call.op, at |-> now,
                latest_set |-> [k \in CacheKeys |->
                                   IF k \in ClearedKeys(call) THEN None ELSE LatestSets[k]]]
    /\ UNCHANGED <<versions, features, score_requests, registry, transactions,
                   relationships, now, sess, labels, model_registry, args,
                   batches, training_jobs, cursor, data_files>>

CacheSetCall == \E k \in CacheKeys, v \in CacheValues : cache_set(k, v)
CacheGetCall == \E k \in CacheKeys : cache_get(k)
CacheClearCall ==
    \E call \in {[op |-> "clear", key |-> k] : k \in CacheKeys}
                \cup {[op |-> "clear_party", party_id |-> k[1]] : k \in CacheKeys}
                \cup {[op |-> "clear_all"]} :
        cache_clear(call)

\* datetime.utcnow() moves on
CacheTick ==
    /\ now < MaxCacheClock
    /\ now' = now + 1
    /\ UNCHANGED <<versions, features, score_requests, registry, transactions,
                   relationships, last, sess, labels, model_registry, args,
                   batches, training_jobs, cache, cursor, data_files>>

InitCache ==
    /\ versions = <<>>
    /\ features = <<>>
    /\ score_requests = <<>>
    /\ registry = <<>>
    /\ transactions = <<>>
    /\ relationships = <<>>
    /\ now = 0
    /\ last = NoCall
    /\ sess = NoSessions
    /\ labels = <<>>
    /\ model_registry = <<>>
    /\ batches = <<>>
    /\ training_jobs = <<>>
    /\ cache = <<>>
    /\ cursor = <<>>
    /\ data_files = {}
    /\ \E ttl \in {0, 1} : args = [op |-> "TTLCache", ttl_seconds |-> ttl]

NextCache ==
    \/ CacheSetCall
    \/ CacheGetCall
    \/ CacheClearCall
    \/ CacheTick

SpecCache == InitCache /\ [][NextCache]_vars

----------------------------------------------------------------------------
(* Batch scoring: the score_batch asset *)

MaxScoreRequests == 4

BatchParties(batch_id) == {p \in PartyIds : PartyTable[p].batch_id = batch_id}

RECURSIVE BatchScoreRequests(_, _)
\* one ScoreRequest per party of the batch, tagged with the scorecard version
BatchScoreRequests(parties, scorecard_version) ==
    IF parties = {}
    THEN <<>>
    ELSE LET p == CHOOSE q \in parties : \A r \in parties : q <= r
         IN <<[party_id |-> p,
               model_version |-> <<"scorecard_v", scorecard_version>>,
               model_type |-> "scorecard"]>>
            \o BatchScoreRequests(parties \ {p}, scorecard_version)

\* score_batch: the active scorecard is loaded, every party of the batch is
\* scored and its ScoreRequest added, one commit; no parties raises ValueError
score_batch(batch_id) ==
    LET parties == BatchParties(batch_id)
    IN /\ Len(score_requests) + Cardinality(parties) <= MaxScoreRequests
       /\ \E first \in QueryFirst(ActiveIds(versions)) :
             LET scorecard_config == get_active_scorecard(versions, first)
             IN score_requests' =
                    score_requests \o BatchScoreRequests(parties, scorecard_config.version)
       /\ last' = [op |-> "score_batch", batch_id |-> batch_id,
                   raised |-> parties = {},
                   count_before |-> CountScores(score_requests, batch_id)]
       /\ UNCHANGED <<versions, features, registry, transactions,
                      relationships, now, sess, labels, model_registry, args,
                      batches, training_jobs, cache, cursor, data_files>>

ScoreBatchCall == \E b \in BatchIds : score_batch(b)

NextScoreBatch ==
    \/ ScoreBatchCall
    \/ CreateNumberedVersionCall
    \/ ensure_initial_version
    \/ Tick

SpecScoreBatch == Init /\ [][NextScoreBatch]_vars

----------------------------------------------------------------------------
(* ScoringService.compute_score for a scorecard-type model: _compute_scorecard *)
(* and _normalize_score.  Feature values are integers in hundredths, so the   *)
(* raw score is in hundredths of a point; the final score is a whole number.  *)

\* features.get(feature_name, 0) * weight; a stored None cannot be multiplied
RawContribution(config, feats, k) ==
    IF WeightedFeatures[k] \in DOMAIN feats
    THEN feats[WeightedFeatures[k]][1] * config.weights[k]
    ELSE 0

\* model_config.get("intercept", 0)
InterceptOf(config) ==
    IF "intercept" \in DOMAIN config THEN 100 * config.intercept ELSE 0

RECURSIVE _compute_scorecard(_, _, _)
_compute_scorecard(config, feats, k) ==
    IF k = 0
    THEN InterceptOf(config)
    ELSE _compute_scorecard(config, feats, k - 1) + RawContribution(config, feats, k)

\* int(x) of the rational n/d with d > 0: truncation towards zero
IntOf(n, d) == IF n >= 0 THEN n \div d ELSE -((-n) \div d)

\* _normalize_score: 300 + ((raw_score - 0) / (1000 - 0)) * 600, then
\* max(300, min(900, int(normalized))); raw_score is in hundredths
_normalize_score(raw_score) ==
    Max(300, Min(900, IntOf(300000 + 6 * raw_score, 1000)))

\* raw_score and final_score of compute_score for model_type 'scorecard' and
\* the current features feats; the multiplication raises on a None value
ScoringServiceScore(config, feats) ==
    LET raises == \E k \in 1..Len(WeightedFeatures) :
                      /\ WeightedFeatures[k] \in DOMAIN feats
                      /\ feats[WeightedFeatures[k]] = None
        raw_score == _compute_scorecard(config, feats, Len(WeightedFeatures))
    IN IF raises
       THEN [raised |-> TRUE]
       ELSE [raised |-> FALSE,
             raw_score |-> raw_score,
             final_score |-> _normalize_score(raw_score)]

\* Both scoring paths on the same feature values and the same config
scoring_service_compute_score ==
    /\ args.op = "compute_scorecard_score"
    /\ last' = [op |-> "ScoringService.compute_score",
                out |-> ScoringServiceScore(args.config, args.features),
                engine |-> ComputeScorecardScore(args.config, args.features, now)]
    /\ UNCHANGED <<versions, features, score_requests, registry, transactions,
                   relationships, now, sess, labels, model_registry, args,
                   batches, training_jobs, cache, cursor, data_files>>

NextScorePaths ==
    \/ scoring_service_compute_score
    \/ compute_scorecard_score
    \/ Tick

SpecScorePaths == InitEngine /\ [][NextScorePaths]_vars

----------------------------------------------------------------------------
(* Model registry activation: ModelTrainingService.save_to_registry and       *)
(* crud.update_model_is_active                                                *)

MaxRegistryModels == 2

RegistryModelVersions == {"v1", "v2", "v3"}

\* The first row with ModelRegistry.model_version == model_version, or none
ModelRowsOfVersion(mr, model_version) ==
    {i \in DOMAIN mr : mr[i].model_version = model_version}

\* db_model.is_active = 1 if is_active else 0, on that one row
SetIsActive(mr, model_version, is_active) ==
    [i \in DOMAIN mr |->
        IF i \in ModelRowsOfVersion(mr, model_version)
        THEN [mr[i] EXCEPT !.is_active = IF is_active THEN 1 ELSE 0]
        ELSE mr[i]]

\* crud.update_model_is_active: None when no row has the version
update_model_is_active(model_version, is_active) ==
    /\ model_registry' = SetIsActive(model_registry, model_version, is_active)
    /\ last' = [op |-> "update_model_is_active",
                model_version |-> model_version,
                ret |-> IF ModelRowsOfVersion(model_registry, model_version) = {}
                        THEN None
                        ELSE Some(model_version)]
    /\ UNCHANGED <<versions, features, score_requests, registry, transactions,
                   relationships, now, sess, labels, args,
                   batches, training_jobs, cache, cursor, data_files>>

\* save_to_registry: create_model_registry (is_active defaults to 0; the commit
\* raises on a model_version already stored), then update_model_is_active when
\* set_active
save_to_registry(model_version, set_active) ==
    LET raised == ModelRowsOfVersion(model_registry, model_version) # {}
        created == Append(model_registry,
                          [model_version |-> model_version,
                           model_type |-> "ml_model",
                           is_active |-> 0])
    IN /\ Len(model_registry) < MaxRegistryModels
       /\ model_registry' =
              IF raised
              THEN model_registry
              ELSE IF set_active
                   THEN SetIsActive(created, model_version, TRUE)
                   ELSE created
       /\ last' = [op |-> "save_to_registry",
                   model_version |-> model_version,
                   set_active |-> set_active,
                   raised |-> raised]
       /\ UNCHANGED <<versions, features, score_requests, registry, transactions,
                      relationships, now, sess, labels, args,
                      batches, training_jobs, cache, cursor, data_files>>

\* compute_score without model_version: the rows query(ModelRegistry)
\* .filter(is_active == 1).first() may return
ActiveModels(mr) == {i \in DOMAIN mr : mr[i].is_active = 1}

SaveToRegistryCall ==
    \E v \in RegistryModelVersions, set_active \in BOOLEAN : save_to_registry(v, set_active)

UpdateModelIsActiveCall ==
    \E v \in RegistryModelVersions, is_active \in BOOLEAN :
        update_model_is_active(v, is_active)

NextModelRegistry ==
    \/ SaveToRegistryCall
    \/ UpdateModelIsActiveCall
    \/ Tick

SpecModelRegistry == Init /\ [][NextModelRegistry]_vars

----------------------------------------------------------------------------
(* iterative_learning_sensor.  A file name is the sequence of its             *)
(* comma-separated pieces (a name without a comma has one piece), so that     *)
(* ",".join and split(",") of the cursor are concatenation and the set of     *)
(* pieces.  data_files holds the regular files of the data directory.         *)

MaxEvaluations == 3

SensorFileNames ==
    {<<"BATCH_1_profiles.json">>,
     <<"BATCH_1_labels.json">>,
     <<"notes.txt">>,
     <<"BATCH_2_profiles.json", "BATCH_1_labels.json">>}

\* re.match(r"(BATCH_\d+)_profiles\.json", filename): the pattern has no
\* comma and no end anchor, so it matches inside the first piece
ProfilesMatch(filename) ==
    CASE filename[1] = "BATCH_1_profiles.json" -> Some("BATCH_1")
      [] filename[1] = "BATCH_2_profiles.json" -> Some("BATCH_2")
      [] OTHER -> None

\* re.match(r"(BATCH_\d+)_labels\.json", filename)
LabelsMatch(filename) ==
    CASE filename[1] = "BATCH_1_labels.json" -> Some("BATCH_1")
      [] OTHER -> None

\* set(cursor.split(",")) if cursor else set(): file names of one piece each
ProcessedFiles(c) == {<<c[i]>> : i \in DOMAIN c}

\* The RunRequest of a file, by its run_key and job_name
RunRequestOf(filename) ==
    IF ProfilesMatch(filename) # None
    THEN [run_key |-> <<"score", ProfilesMatch(filename)[1]>>,
          job_name |-> "score_batch_job"]
    ELSE [run_key |-> <<"train", LabelsMatch(filename)[1]>>,
          job_name |-> "train_model_job"]

\* The files of the scan that are not in processed_files and match a pattern
NewFiles(files, processed_files) ==
    {f \in files :
        /\ f \notin processed_files
        /\ (ProfilesMatch(f) # None \/ LabelsMatch(f) # None)}

\* The orders in which a set of names can be listed
Listings(S) ==
    {l \in [1..Cardinality(S) -> S] : \A i, j \in DOMAIN l : i # j => l[i] # l[j]}

RECURSIVE Joined(_)
Joined(l) == IF Len(l) = 0 THEN <<>> ELSE Head(l) \o Joined(Tail(l))

UpdatedCursor_unrecorded(processed, new_files) == Joined(processed)

\* ",".join(list(processed_files) + new_files)
UpdatedCursor(processed, new_files) == Joined(processed \o new_files)

\* How many RunRequests each file has had, over all evaluations so far
RequestedSoFar ==
    IF last.op = "iterative_learning_sensor"
    THEN last.requested
    ELSE [f \in SensorFileNames |-> 0]

EvaluationsSoFar ==
    IF last.op = "iterative_learning_sensor" THEN last.evaluations ELSE 0

\* One evaluation: os.listdir and list(set) give their elements in any order
iterative_learning_sensor ==
    LET processed_files == ProcessedFiles(cursor)
        found == NewFiles(data_files, processed_files)
    IN /\ EvaluationsSoFar < MaxEvaluations
       /\ \E processed \in Listings(processed_files), new_files \in Listings(found) :
             /\ cursor' = IF found # {}
                          THEN UpdatedCursor(processed, new_files)
                          ELSE cursor
             /\ last' = [op |-> "iterative_learning_sensor",
                         ret |-> IF found # {}
                                 THEN Some([k \in DOMAIN new_files |->
                                                RunRequestOf(new_files[k])])
                                 ELSE None,
                         new_files |-> found,
                         processed_before |-> processed_files,
                         requested |-> [f \in SensorFileNames |->
                                           RequestedSoFar[f]
                                               + (IF f \in found THEN 1 ELSE 0)],
                         evaluations |-> EvaluationsSoFar + 1]
       /\ UNCHANGED <<versions, features, score_requests, registry, transactions,
                      relationships, now, sess, labels, model_registry, args,
                      batches, training_jobs, cache, data_files>>

\* A data file is written to the data directory, or removed from it
DataFileWritten ==
    \E f \in SensorFileNames \ data_files :
        /\ data_files' = data_files \cup {f}
        /\ UNCHANGED <<versions, features, score_requests, registry, transactions,
                       relationships, now, last, sess, labels, model_registry, args,
                       batches, training_jobs, cache, cursor>>

DataFileRemoved ==
    \E f \in data_files :
        /\ data_files' = data_files \ {f}
        /\ UNCHANGED <<versions, features, score_requests, registry, transactions,
                       relationships, now, last, sess, labels, model_registry, args,
                       batches, training_jobs, cache, cursor>>

NextSensor ==
    \/ iterative_learning_sensor
    \/ DataFileWritten
    \/ DataFileRemoved

SpecSensor == Init /\ [][NextSensor]_vars

----------------------------------------------------------------------------
(* Properties of the registry *)

\* C1: after any sequence of ensure_initial_version and create_version_from_ml
\* calls from an empty registry, at most one version has status 'active'.
AtMostOneActiveVersion == Cardinality(ActiveIds(versions)) <= 1

\* C1 witness: seeded, promoted and rejected candidates are all in the registry.
SeededPromotedAndRejected ==
    /\ \E i \in DOMAIN versions : versions[i].source = "expert"
    /\ \E i \in DOMAIN versions : versions[i].status = "retired"
    /\ \E i \in DOMAIN versions : versions[i].status = "failed"
    /\ \E i \in DOMAIN versions :
           versions[i].status = "active" /\ versions[i].source = "ml_refined"

\* C5: a candidate with ml_auc < MIN_AUC_THRESHOLD is persisted as 'failed'
\* with a reason, the call returns normally, and the version that was active
\* before the call is still active.
BelowMinimumIsRecordedAsFailed ==
    (last.op = "create_version_from_ml" /\ last.ml_auc < MIN_AUC_THRESHOLD) =>
        /\ ~last.raised
        /\ last.ret \in DOMAIN versions
        /\ versions[last.ret].status = "failed"
        /\ versions[last.ret].ml_auc = Some(last.ml_auc)
        /\ Len(versions[last.ret].notes) = 2
        /\ versions[last.ret].notes[1] = "FAILED"
        /\ last.pre_active # None => versions[last.pre_active[1]].status = "active"
        /\ ActiveIds(versions) = {i[1] : i \in {last.pre_active} \ {None}}

\* C5 witness: a below-minimum candidate was submitted while a version was active.
BelowMinimumSubmittedWhileActive ==
    /\ last.op = "create_version_from_ml"
    /\ last.ml_auc < MIN_AUC_THRESHOLD
    /\ last.pre_active # None

PassedBothGates ==
    /\ last.op = "create_version_from_ml"
    /\ last.ml_auc >= MIN_AUC_THRESHOLD
    /\ \/ last.pre_auc = None
       \/ last.ml_auc - last.pre_auc[1] >= IMPROVEMENT_THRESHOLD

\* C8: a candidate that passes both gates retires the previously active version
\* (retired_at set), is inserted as 'active' (activated_at set), and
\* get_active_scorecard then returns the new version's config.
PromotionRetiresOldAndActivatesNew ==
    PassedBothGates =>
        /\ last.pre_active # None =>
               /\ versions[last.pre_active[1]].status = "retired"
               /\ versions[last.pre_active[1]].retired_at # None
        /\ versions[last.ret].status = "active"
        /\ versions[last.ret].activated_at # None
        /\ versions[last.ret].weights = last.weights
        /\ \A first \in QueryFirst(ActiveIds(versions)) :
               get_active_scorecard(versions, first) = to_config_dict(versions[last.ret])

\* C8 witness: a candidate beat an active ML-refined version.
PromotedOverMlVersion ==
    /\ PassedBothGates
    /\ last.pre_active # None
    /\ last.pre_auc # None

\* C9: with a recorded AUC on the active version, a candidate improving by less
\* than IMPROVEMENT_THRESHOLD is persisted as 'failed' and the active version
\* stays; with no recorded AUC the gate is skipped, so the first ML-derived
\* version passing the minimum gate is promoted.
ImprovementGate ==
    (last.op = "create_version_from_ml") =>
        /\ (last.pre_auc # None
              /\ last.ml_auc - last.pre_auc[1] < IMPROVEMENT_THRESHOLD) =>
               /\ versions[last.ret].status = "failed"
               /\ versions[last.pre_active[1]].status = "active"
               /\ ActiveIds(versions) = {last.pre_active[1]}
        /\ (last.pre_auc = None /\ last.ml_auc >= MIN_AUC_THRESHOLD) =>
               versions[last.ret].status = "active"
        /\ (~last.pre_ml_promoted /\ last.ml_auc >= MIN_AUC_THRESHOLD) =>
               versions[last.ret].status = "active"

\* C9 witness: a candidate above the minimum was rejected by the improvement gate.
RejectedByImprovementGate ==
    /\ last.op = "create_version_from_ml"
    /\ last.ml_auc >= MIN_AUC_THRESHOLD
    /\ last.pre_auc # None
    /\ last.ml_auc - last.pre_auc[1] < IMPROVEMENT_THRESHOLD
    /\ versions[last.ret].status = "failed"

----------------------------------------------------------------------------
(* Properties of the feature store *)

AllFeatureNames == {features[i].feature_name : i \in DOMAIN features}

\* C2: for every party and feature name at most one Feature row has
\* valid_to = NULL, whatever write path produced the rows.
AtMostOneCurrentFeature ==
    \A p \in PartyIds : \A name \in AllFeatureNames :
        Cardinality(CurrentRows(features, p, name)) <= 1

----------------------------------------------------------------------------
(* Properties of the leakage guard *)

ActiveTrainedOn(batch_id) ==
    \E i \in RegistryActiveIds(registry) : registry[i].trained_on_batch_id = batch_id

BatchHasScores(batch_id) ==
    \E i \in DOMAIN score_requests :
        /\ score_requests[i].party_id \in PartyIds
        /\ PartyTable[score_requests[i].party_id].batch_id = batch_id

\* C3: validate_scoring_request(batch_id) raises whenever the active model
\* version was trained on that batch, and returns for a different batch that
\* has not been scored yet.
LeakageAlwaysRaises ==
    (last.op = "validate_scoring_request") =>
        /\ ActiveTrainedOn(last.batch_id) => last.raised # "none"
        /\ (~ActiveTrainedOn(last.batch_id) /\ ~BatchHasScores(last.batch_id)) =>
               last.raised = "none"

\* C10: validate_scoring_request(batch_id) raises whenever a score record
\* exists for a party of the batch, and it leaves every table as it was.
RescoringRaisesAndGuardIsPure ==
    (last.op = "validate_scoring_request") =>
        /\ BatchHasScores(last.batch_id) => last.raised = "ValueError"
        /\ Tables = last.pre

\* C10 witness: the guard was asked about a batch that has a score record.
GuardAskedAboutScoredBatch ==
    /\ last.op = "validate_scoring_request"
    /\ BatchHasScores(last.batch_id)
    /\ registry # <<>>

----------------------------------------------------------------------------
(* Properties of point-in-time extraction *)

TransactionsKnownAt(T) ==
    LET Known(r) == r.transaction_date <= T IN SelectSeq(transactions, Known)

RelationshipsKnownAt(T) ==
    LET Known(r) == r.established_date <= T IN SelectSeq(relationships, Known)

\* C4: a point-in-time read at T returns what it would return if no
\* transaction dated after T and no relationship established after T were
\* stored, whatever the day of the call; it leaves the feature store alone.
AsOfReadIgnoresLaterData ==
    (last.op = "extract_features" /\ last.as_of_date # None) =>
        /\ \A t \in {0, now} :
               last.features_list =
                   AllFeatures(last.source_types, last.failed,
                               TransactionsKnownAt(last.as_of_date[1]),
                               RelationshipsKnownAt(last.as_of_date[1]),
                               last.party_id, last.as_of_date, t)
        /\ features = <<>>

\* C4 witness: an as-of read for a party that has a transaction in the window,
\* a transaction dated after T and a relationship established after T.
AsOfReadWithLaterData ==
    /\ last.op = "extract_features"
    /\ last.as_of_date # None
    /\ last.failed = {}
    /\ \E i \in DOMAIN transactions :
           /\ transactions[i].party_id = last.party_id
           /\ transactions[i].transaction_date > last.as_of_date[1]
    /\ \E i \in DOMAIN transactions :
           /\ transactions[i].party_id = last.party_id
           /\ transactions[i].transaction_date <= last.as_of_date[1]
           /\ transactions[i].transaction_date >= last.as_of_date[1] - 180
    /\ \E i \in DOMAIN relationships :
           /\ relationships[i].from_party_id = last.party_id
           /\ relationships[i].established_date > last.as_of_date[1]

----------------------------------------------------------------------------
(* Properties under concurrent sessions *)

\* C6: from the first activation on, a reader of the registry sees exactly
\* one active version, whatever the interleaving of two sessions promoting or
\* seeding.
ReaderSeesExactlyOneActive ==
    (\E i \in DOMAIN versions : versions[i].activated_at # None) =>
        Cardinality(ActiveIds(versions)) = 1

\* C7: once no extraction run is in flight, every feature name a party has
\* rows for has exactly one current row.
ConcurrentRunsLeaveOneCurrentRow ==
    (\A s \in Sessions : sess[s].pc = "idle") =>
        \A i \in DOMAIN features :
            Cardinality(CurrentRows(features, features[i].party_id,
                                    features[i].feature_name)) = 1

----------------------------------------------------------------------------
(* Properties of the training guard *)

BatchHasLabels(batch_id) ==
    \E i \in DOMAIN labels : labels[i].dataset_batch = batch_id

\* A model version has been created: a model_registry row, or a scorecard
\* version create_version_from_ml promoted
ModelVersionCreated ==
    \/ model_registry # <<>>
    \/ \E i \in DOMAIN versions :
           /\ versions[i].source = "ml_refined"
           /\ versions[i].status \in {"active", "retired"}

\* C11: validate_training_request on a batch with no score record raises once
\* any model version has been created; before that (bootstrap) the missing
\* scores alone do not make it raise.
UnscoredTrainingOnlyAtBootstrap ==
    (last.op = "validate_training_request" /\ ~BatchHasScores(last.batch_id)) =>
        /\ ModelVersionCreated => last.result.raised = "ValueError"
        /\ (~ModelVersionCreated /\ BatchHasLabels(last.batch_id)) =>
               last.result.raised = "none"

\* C12: validate_training_request raises whenever the batch has no label,
\* scored or not, bootstrap or not, and returns for a scored batch with labels.
TrainingNeedsLabels ==
    (last.op = "validate_training_request") =>
        /\ ~BatchHasLabels(last.batch_id) => last.result.raised = "ValueError"
        /\ (BatchHasLabels(last.batch_id) /\ BatchHasScores(last.batch_id)) =>
               last.result.raised = "none"
        /\ Tables = last.pre

\* C12 witness: the guard refused a scored batch for its missing labels while
\* a model exists.
ScoredBatchRefusedForLabels ==
    /\ last.op = "validate_training_request"
    /\ BatchHasScores(last.batch_id)
    /\ ~BatchHasLabels(last.batch_id)
    /\ model_registry # <<>>
    /\ last.result.message = "labels not ingested yet"

----------------------------------------------------------------------------
(* Properties of the scorecard engine *)

\* C13: two calls of compute_scorecard_score with the same features and the
\* same config return the same output in every field.
SameInputSameOutput ==
    (last.op = "compute_scorecard_score" /\ last.prev_out # None) =>
        last.out = last.prev_out[1]

RECURSIVE SumSeq(_, _)
SumSeq(q, k) == IF k = 0 THEN 0 ELSE SumSeq(q, k - 1) + q[k]

\* C14: raw_score is base_score plus the sum of the returned contributions and
\* score is raw_score clamped into [base_score, max_score].
ScoreIsClampedRawScore ==
    (last.op = "compute_scorecard_score") =>
        LET out == last.out
            lo == 100 * args.config.base_score
            hi == 100 * args.config.max_score
        IN /\ out.raw_score = lo + SumSeq(out.contributions, Len(out.contributions))
           /\ out.score >= lo
           /\ out.score <= hi
           /\ (out.raw_score < lo) => out.score = lo
           /\ (out.raw_score > hi) => out.score = hi
           /\ (out.raw_score >= lo /\ out.raw_score <= hi) => out.score = out.raw_score

\* C14 witness: negative weights took a raw score below base_score.
RawScoreBelowBase ==
    /\ last.op = "compute_scorecard_score"
    /\ last.out.raw_score < 100 * args.config.base_score
    /\ \E k \in DOMAIN last.out.contributions : last.out.contributions[k] > 0

\* C15: a weighted feature that is absent or None contributes 0 and is listed
\* in missing_features; a weighted feature that is present is not listed.
MissingFeaturesContributeZero ==
    (last.op = "compute_scorecard_score") =>
        \A k \in 1..Len(WeightedFeatures) :
            LET name == WeightedFeatures[k]
                listed == \E j \in DOMAIN last.out.missing_features :
                              last.out.missing_features[j] = name
            IN IF name \notin DOMAIN args.features \/ args.features[name] = None
               THEN last.out.contributions[k] = 0 /\ listed
               ELSE ~listed

\* C15 witness: one weighted feature absent, one None, one present.
AbsentNoneAndPresent ==
    /\ last.op = "compute_scorecard_score"
    /\ \E a, b, c \in {WeightedFeatures[k] : k \in 1..Len(WeightedFeatures)} :
           /\ a \notin DOMAIN args.features
           /\ b \in DOMAIN args.features /\ args.features[b] = None
           /\ c \in DOMAIN args.features /\ args.features[c] # None

----------------------------------------------------------------------------
(* Properties of the ML to scorecard conversion *)

Sign(x) == IF x > 0 THEN 1 ELSE IF x < 0 THEN -1 ELSE 0

\* The weight a conversion returned for the k-th feature (0 when left out)
WeightOf(ret, k) == IF k \in DOMAIN ret.weights THEN ret.weights[k] ELSE 0

Converted ==
    /\ last.op \in {"convert_to_scorecard", "_extract_ml_weights"}
    /\ last.raised = "none"
    /\ args.coef_ # None

WeightsScaledByLargestCoefficient ==
    Converted =>
        LET coefficients == args.coef_[1]
            max_abs == MaxAbs(coefficients, Len(coefficients))
        IN max_abs > 0 =>
               \A k \in DOMAIN coefficients :
                   /\ WeightOf(last.ret, k) =
                          PythonRound(coefficients[k] * last.total_points, max_abs)
                   /\ Abs(coefficients[k]) = max_abs =>
                          Abs(WeightOf(last.ret, k)) = last.total_points

----------------------------------------------------------------------------
(* Properties of the registry's reader *)

\* C18: get_active_scorecard always returns a scoring config: the config of
\* the one version with status 'active' when there is one, the bootstrap
\* expert config when there is none (an empty table included), and never the
\* config of a 'failed' or 'retired' version.
ActiveConfigOrBootstrap ==
    last.op = "get_active_scorecard" =>
        LET active == {i \in DOMAIN versions : versions[i].status = "active"}
        IN /\ active = {} => last.ret = [id |-> None] @@ INITIAL_SCORECARD_V1
           /\ active # {} =>
                  /\ Cardinality(active) = 1
                  /\ \A i \in active : last.ret = to_config_dict(versions[i])
           /\ \A i \in DOMAIN versions :
                  versions[i].status \in {"failed", "retired"} =>
                      last.ret.id # Some(i)
           /\ {"weights", "base_score", "max_score"} \subseteq DOMAIN last.ret

\* C18 witness: the active version's config was returned while a failed and a
\* retired version were stored.
ActiveReturnedAmongFailedAndRetired ==
    /\ last.op = "get_active_scorecard"
    /\ last.ret.id # None
    /\ versions[last.ret.id[1]].status = "active"
    /\ \E i, j \in DOMAIN versions :
           versions[i].status = "failed" /\ versions[j].status = "retired"

----------------------------------------------------------------------------
(* Properties of the scoring call *)

\* C19: a scoring call asked to persist returns a result only if its
\* ScoreRequest record was stored; when persisting fails it raises instead.
SuccessOnlyWhenPersisted ==
    (last.op = "compute_score" /\ last.persist /\ ~last.raised) =>
        /\ ~last.persist_raised
        /\ Len(score_requests) = last.score_requests_before + 1

----------------------------------------------------------------------------
(* Properties of the decision rules *)

\* C20: the decision is the action of a matching active rule that no matching
\* active rule precedes in priority, whatever rules follow it; when no active
\* rule matches the decision is 'approved' with no reasons.
FirstMatchingRuleDecides ==
    last.op = "_apply_decision_rules" =>
        LET tbl == args.decision_rules
            matching == {i \in DOMAIN tbl :
                            /\ tbl[i].is_active = 1
                            /\ EvalCondition(tbl[i].condition_expression,
                                             args.features) = "true"}
        IN IF matching = {}
           THEN last.ret = <<"approved", <<>>>>
           ELSE \E i \in matching :
                    /\ \A j \in matching : tbl[i].priority <= tbl[j].priority
                    /\ \A k \in DOMAIN last.rules :
                           (last.rules[k] \in matching) =>
                               \E k0 \in DOMAIN last.rules :
                                   last.rules[k0] = i /\ k0 <= k
                    /\ last.ret = <<tbl[i].action, <<tbl[i].rule_name>>>>

\* C20 witness: two active rules matched, the later one with another action,
\* and the earlier one decided.
EarlierRuleDecidedOverLater ==
    /\ last.op = "_apply_decision_rules"
    /\ Len(last.rules) >= 2
    /\ \A k \in {1, 2} :
           EvalCondition(args.decision_rules[last.rules[k]].condition_expression,
                         args.features) = "true"
    /\ args.decision_rules[last.rules[1]].priority
           < args.decision_rules[last.rules[2]].priority
    /\ args.decision_rules[last.rules[1]].action
           # args.decision_rules[last.rules[2]].action
    /\ last.ret[1] = args.decision_rules[last.rules[1]].action

----------------------------------------------------------------------------
(* Properties of the batch lifecycle *)

StatusRank(status) ==
    CHOOSE k \in DOMAIN BatchStatusOrder : BatchStatusOrder[k] = status

----------------------------------------------------------------------------
(* Properties of the training jobs *)

\* C22: when train_model_endpoint fails to launch the training run, no
\* TrainingJob row with status 'running' remains, so that a later request
\* is not refused with 'Training already in progress'.
FailedLaunchLeavesNoRunningJob ==
    (last.op = "train_model_endpoint" /\ last.http = 500) =>
        \A i \in DOMAIN training_jobs : training_jobs[i].status # "running"

----------------------------------------------------------------------------
(* Properties of the version numbering *)

VersionBelow(v, w) == v[1] < w[1] \/ (v[1] = w[1] /\ v[2] < w[2])

IntRejects(part) == part < 0

\* C23: a version created by create_version_from_ml carries the latest stored
\* version's number with the minor part plus one; stored versions carry
\* strictly increasing numbers in the order of their creation (so no two share
\* one); a latest version string whose major or minor part is not an integer
\* gives '2.0'.
VersionNumbersIncrease ==
    /\ \A i, j \in DOMAIN versions :
           i < j => VersionBelow(versions[i].version, versions[j].version)
    /\ (last.op = "create_version_from_ml" /\ last.ret > 1) =>
           versions[last.ret].version =
               <<versions[last.ret - 1].version[1],
                 versions[last.ret - 1].version[2] + 1>>
    /\ (last.op = "_get_next_version_number"
            /\ (IntRejects(args.latest[1])
                   \/ (Len(args.latest) > 1 /\ IntRejects(args.latest[2])))) =>
           last.ret = <<2, 0>>

\* C23 witness: a failed and a promoted version were numbered after '1.0',
\* and the malformed string "1.x" gave '2.0'.
NumberedFailedAndPromoted ==
    /\ last.op = "_get_next_version_number"
    /\ args.latest = <<1, -1>>
    /\ last.ret = <<2, 0>>
    /\ Len(versions) >= 3
    /\ versions[1].version = <<1, 0>>
    /\ \E i, j \in DOMAIN versions :
           /\ versions[i].status = "failed" /\ versions[i].version = <<1, i - 1>>
           /\ versions[j].status = "active" /\ versions[j].version = <<1, j - 1>>
           /\ i > 1 /\ j > 1

----------------------------------------------------------------------------
(* Properties of the TTL cache *)

\* C24: get(key) returns the value of the latest set(key) that no clear
\* followed while at most ttl_seconds have passed since that set, and None
\* once more than ttl_seconds have passed; a new set restarts the TTL.
GetReturnsLatestSetWithinTtl ==
    last.op = "get" =>
        LET latest == last.latest_set[last.key]
        IN latest # None =>
               IF last.at - latest[1].at <= args.ttl_seconds
               THEN last.ret = Some(latest[1].value)
               ELSE last.ret = None

\* C24 witness: with a TTL of 1 a key whose latest set was made at time 1 was
\* read at time 2 and its value returned.
ReadAfterRefresh ==
    /\ last.op = "get"
    /\ last.ret = Some("features_b")
    /\ args.ttl_seconds = 1
    /\ last.at = 2
    /\ last.latest_set[last.key] = Some([value |-> "features_b", at |-> 1])

----------------------------------------------------------------------------
(* Properties of batch scoring *)

\* C25: the scoring step run on a batch that already has ScoreRequest records
\* fails and adds no ScoreRequest for that batch.
NoSilentReScoring ==
    (last.op = "score_batch" /\ last.count_before > 0) =>
        /\ last.raised
        /\ CountScores(score_requests, last.batch_id) = last.count_before


\* C26: for a scorecard-type model ScoringService.compute_score gives the same
\* final score as compute_scorecard_score on the same feature values and
\* weight config, within the config's [base_score, max_score] range.
ScoringPathsAgree ==
    (last.op = "ScoringService.compute_score" /\ ~last.out.raised) =>
        /\ 100 * last.out.final_score = last.engine.score
        /\ last.out.final_score >= args.config.base_score
        /\ last.out.final_score <= args.config.max_score


\* C27: extract_features called with an as_of_date leaves the feature store
\* as it was: no Feature row is closed and none is inserted.
AsOfExtractionLeavesStore ==
    [][(last'.op = "extract_features" /\ last'.as_of_date # None)
           => features' = features]_vars

\* An as-of extraction produced features for a party that has current rows
AsOfExtractionOverCurrentRows ==
    /\ last.op = "extract_features"
    /\ last.as_of_date # None
    /\ Len(last.features_list) > 0
    /\ \E i \in DOMAIN features :
          features[i].party_id = last.party_id /\ features[i].valid_to = None


\* C28: an extractor failure during a live extract_features run never reduces
\* feature availability: every feature name of the party that had a current
\* row before the run has one after it, and the features of the extractors
\* that succeeded are current.
ExtractorFailureKeepsAvailability ==
    [][(/\ last'.op = "extract_features"
        /\ last'.as_of_date = None
        /\ last'.failed # {})
           => /\ \A i \in DOMAIN features :
                    (features[i].party_id = last'.party_id /\ features[i].valid_to = None)
                        => CurrentRows(features', last'.party_id,
                                       features[i].feature_name) # {}
              /\ \A k \in DOMAIN last'.features_list :
                    CurrentRows(features', last'.party_id,
                                last'.features_list[k].feature_name) # {}]_vars


\* C29: at most one ModelRegistry entry is active after any sequence of
\* save_to_registry(set_active=True) and update_model_is_active calls.
AtMostOneActiveModel ==
    Cardinality(ActiveModels(model_registry)) <= 1


\* C30: over any sequence of sensor evaluations a data file named
\* BATCH_n_profiles.json or BATCH_n_labels.json gets at most one RunRequest:
\* the evaluation that requests a file records it in the cursor, and a file
\* recorded in the cursor is not requested.
EachDataFileRequestedOnce ==
    /\ \A f \in SensorFileNames : Len(f) = 1 => RequestedSoFar[f] <= 1
    /\ last.op = "iterative_learning_sensor" =>
          \A f \in last.new_files :
              /\ f \notin last.processed_before
              /\ \A k \in DOMAIN f : <<f[k]>> \in ProcessedFiles(cursor)

\* A later evaluation saw a file that was requested before and passed it over
RequestedFileSeenAgain ==
    /\ last.op = "iterative_learning_sensor"
    /\ last.evaluations >= 2
    /\ \E f \in data_files :
          /\ Len(f) = 1
          /\ last.requested[f] = 1
          /\ f \in last.processed_before
          /\ f \notin last.new_files
    /\ last.new_files # {}

====
